---- MODULE Spec2Model ----
(***************************************************************************)
(* A model of citationberg (typst/citationberg): style validation and      *)
(* metadata purging, the name-option cascade, the choose/branch test       *)
(* model and the locale resolver.  Every operation of the crate is a pure  *)
(* function over owned values; each component is modelled as a small state *)
(* machine whose Init draws the inputs and whose actions apply the         *)
(* functions, one specification per component.                             *)
(***************************************************************************)
EXTENDS Integers, Sequences, FiniteSets, TLC

\* Option<T>: None is the empty sequence, Some(x) the one-element sequence.
None == <<>>
Some(x) == <<x>>
IsSome(o) == o # <<>>
IsNone(o) == o = <<>>
Unwrap(o) == o[1]
\* Option::or / Option::or_else
Or(a, b) == IF IsSome(a) THEN a ELSE b
OptionOf(S) == {None} \cup {Some(x) : x \in S}

\* All sequences over S of length at most n.
SeqUpTo(S, n) == UNION {[1..k -> S] : k \in 0..n}

\* Iterator::find: the first element satisfying P, as an Option.
FindFirst(s, P(_)) ==
    LET hits == {i \in DOMAIN s : P(s[i])} IN
    IF hits = {} THEN None
    ELSE Some(s[CHOOSE i \in hits : \A j \in hits : i <= j])

\* Vec::retain: the elements satisfying P, in order.
Retain(s, P(_)) == SelectSeq(s, P)

(***************************************************************************)
(* Bounds of the model.                                                    *)
(***************************************************************************)
\* Longest list of metadata links of a style.
MaxLinks == 2
\* Largest et-al threshold written in a style (thresholds range over 0..MaxEtAl).
MaxEtAl == 3
\* Longest name list is_suppressed is asked about.
MaxNames == 4
\* Longest list of sub-test results handed to ChooseMatch::test.
MaxTests == 4
\* Longest list of terms of a locale.
MaxTerms == 2
\* Largest number of '-'-separated parts of a locale code.
MaxParts == 2

VARIABLES
    \* --- style validation (lib.rs, RawStyle / Style) ---
    raw,        \* the RawStyle handed to validation
    style,      \* Option<Result<Style, StyleValidationError>>: the validated style
    wire,       \* Option<RawStyle>: the record Serialize wrote last
    sent,       \* Option<Style>: the style that record was written from
    reparsed,   \* Option<Result<..>>: validation of the record read back
    \* --- option cascade (lib.rs, InheritableNameOptions::apply) ---
    ancestor,   \* InheritableNameOptions of the outer level
    middle,     \* InheritableNameOptions of the level below it
    leaf,       \* InheritableNameOptions of the innermost level
    merged,     \* Option: ancestor.apply(middle)
    left,       \* Option: ancestor.apply(middle).apply(leaf)
    right,      \* Option: ancestor.apply(middle.apply(leaf))
    \* --- name element (lib.rs, Name::options / NameOptions::is_suppressed) ---
    inherited,  \* InheritableNameOptions handed to Name::options
    name,       \* the Name element
    options,    \* Option<NameOptions>: name.options(inherited)
    query,      \* Option: the last (idx, length, is_subsequent) asked
    suppressed, \* Option<bool>: the answer of is_suppressed to query
    \* --- conditional branches (lib.rs, ChooseBranch::test / ChooseMatch::test) ---
    branch,     \* the ChooseBranch
    test,       \* Option<Option<ChooseTest>>: branch.test()
    tests,      \* the results of the sub-tests, in order
    verdict,    \* per ChooseMatch, Option<bool>: match.test(tests)
    \* --- locale terms (lib.rs, Locale::term) ---
    locale,     \* the Locale
    request,    \* the (term, form) asked for
    found,      \* Option<Option<LocalizedTerm>>: locale.term(term, form)
    \* --- locale codes (lib.rs, LocaleCode::fallback) ---
    code,       \* the LocaleCode, a string of characters
    first,      \* Option<Option<LocaleCode>>: code.fallback()
    second,     \* Option<Option<LocaleCode>>: the fallback of that fallback
    \* --- ordinal terms (lib.rs, OrdinalLookup) ---
    ordinals,   \* Option<OrdinalLookup>: the lookup built from a locale's ordinal terms
    numbered,   \* the number and gender asked for
    short_ord,  \* Option: the term lookup chose and the text it returned
    long_ord,   \* Option: the term lookup_long found and the text it returned
    \* --- dates (json.rs, FixedDateRange / VecDateRange) ---
    overflow_checks, \* Option<bool>: whether the build checks integer overflow
    date_text,  \* Option<string>: the date string handed to from_str
    parsed,     \* Option<Result<FixedDateRange, ()>>: from_str(date_text)
    listed,     \* Option<VecDateRange>: the parsed range as a list
    relisted,   \* Option<Result<FixedDateRange, ()>>: that list converted back
    vec_range,  \* Option<VecDateRange>: a list handed to try_from
    converted,  \* Option<Result<FixedDateRange, ()>>: try_from(vec_range)
    \* --- date parts (lib.rs, DateStrongAnyForm::for_name) ---
    date_part,  \* Option<Vec<DatePart>>: the date parts of a Date element
    part_forms, \* the DateStrongAnyForm of the first parts, in order
    \* --- page ranges (lib.rs, PageRangeFormat::format) ---
    page_range, \* Option: the format, the range and the separator handed to format
    page_buf,   \* Option: what format wrote to buf, or that it panicked
    \* --- variable search (lib.rs, Layout::find_variable_element) ---
    find_layout,   \* Option<Layout>: the elements of the layout searched
    find_macros,   \* Option<Vec<CslMacro>>: the macro table of the style
    find_variable, \* Option<Variable>: the variable looked for
    find_element   \* Option: what find_variable_element returned, or that it never returns

styleVars == <<raw, style, wire, sent, reparsed>>
cascadeVars == <<ancestor, middle, leaf, merged, left, right>>
nameVars == <<inherited, name, options, query, suppressed>>
chooseVars == <<branch, test, tests, verdict>>
termVars == <<locale, request, found>>
codeVars == <<code, first, second>>
ordinalVars == <<ordinals, numbered, short_ord, long_ord>>
dateVars == <<overflow_checks, date_text, parsed, listed, relisted, vec_range, converted>>
partVars == <<date_part, part_forms>>
pageVars == <<page_range, page_buf>>
findVars == <<find_layout, find_macros, find_variable, find_element>>
vars == <<styleVars, cascadeVars, nameVars, chooseVars, termVars, codeVars, ordinalVars, dateVars, partVars, pageVars, findVars>>

\* A component that is not exercised keeps all of its variables at None.
StyleIdle == raw = None /\ style = None /\ wire = None /\ sent = None /\ reparsed = None
CascadeIdle == ancestor = None /\ middle = None /\ leaf = None /\ merged = None /\ left = None /\ right = None
NameIdle == inherited = None /\ name = None /\ options = None /\ query = None /\ suppressed = None
ChooseIdle == branch = None /\ test = None /\ tests = None /\ verdict = None
TermIdle == locale = None /\ request = None /\ found = None
CodeIdle == code = None /\ first = None /\ second = None
OrdinalIdle == ordinals = None /\ numbered = None /\ short_ord = None /\ long_ord = None
DateIdle == overflow_checks = None /\ date_text = None /\ parsed = None /\ listed = None /\ relisted = None /\ vec_range = None /\ converted = None
PartIdle == date_part = None /\ part_forms = None
PageIdle == page_range = None /\ page_buf = None
FindIdle == find_layout = None /\ find_macros = None /\ find_variable = None /\ find_element = None

OnlyStyle == CascadeIdle /\ NameIdle /\ ChooseIdle /\ TermIdle /\ CodeIdle /\ OrdinalIdle /\ DateIdle /\ PartIdle /\ PageIdle /\ FindIdle
OnlyCascade == StyleIdle /\ NameIdle /\ ChooseIdle /\ TermIdle /\ CodeIdle /\ OrdinalIdle /\ DateIdle /\ PartIdle /\ PageIdle /\ FindIdle
OnlyName == StyleIdle /\ CascadeIdle /\ ChooseIdle /\ TermIdle /\ CodeIdle /\ OrdinalIdle /\ DateIdle /\ PartIdle /\ PageIdle /\ FindIdle
OnlyChoose == StyleIdle /\ CascadeIdle /\ NameIdle /\ TermIdle /\ CodeIdle /\ OrdinalIdle /\ DateIdle /\ PartIdle /\ PageIdle /\ FindIdle
OnlyTerm == StyleIdle /\ CascadeIdle /\ NameIdle /\ ChooseIdle /\ CodeIdle /\ OrdinalIdle /\ DateIdle /\ PartIdle /\ PageIdle /\ FindIdle
OnlyCode == StyleIdle /\ CascadeIdle /\ NameIdle /\ ChooseIdle /\ TermIdle /\ OrdinalIdle /\ DateIdle /\ PartIdle /\ PageIdle /\ FindIdle
OnlyOrdinal == StyleIdle /\ CascadeIdle /\ NameIdle /\ ChooseIdle /\ TermIdle /\ CodeIdle /\ DateIdle /\ PartIdle /\ PageIdle /\ FindIdle
OnlyDate == StyleIdle /\ CascadeIdle /\ NameIdle /\ ChooseIdle /\ TermIdle /\ CodeIdle /\ OrdinalIdle /\ PartIdle /\ PageIdle /\ FindIdle
OnlyPart == StyleIdle /\ CascadeIdle /\ NameIdle /\ ChooseIdle /\ TermIdle /\ CodeIdle /\ OrdinalIdle /\ DateIdle /\ PageIdle /\ FindIdle
OnlyPage == StyleIdle /\ CascadeIdle /\ NameIdle /\ ChooseIdle /\ TermIdle /\ CodeIdle /\ OrdinalIdle /\ DateIdle /\ PartIdle /\ FindIdle
OnlyFind == StyleIdle /\ CascadeIdle /\ NameIdle /\ ChooseIdle /\ TermIdle /\ CodeIdle /\ OrdinalIdle /\ DateIdle /\ PartIdle /\ PageIdle

notStyle == <<cascadeVars, nameVars, chooseVars, termVars, codeVars, ordinalVars, dateVars, partVars, pageVars, findVars>>
notCascade == <<styleVars, nameVars, chooseVars, termVars, codeVars, ordinalVars, dateVars, partVars, pageVars, findVars>>
notName == <<styleVars, cascadeVars, chooseVars, termVars, codeVars, ordinalVars, dateVars, partVars, pageVars, findVars>>
notChoose == <<styleVars, cascadeVars, nameVars, termVars, codeVars, ordinalVars, dateVars, partVars, pageVars, findVars>>
notTerm == <<styleVars, cascadeVars, nameVars, chooseVars, codeVars, ordinalVars, dateVars, partVars, pageVars, findVars>>
notCode == <<styleVars, cascadeVars, nameVars, chooseVars, termVars, ordinalVars, dateVars, partVars, pageVars, findVars>>
notOrdinal == <<styleVars, cascadeVars, nameVars, chooseVars, termVars, codeVars, dateVars, partVars, pageVars, findVars>>
notDate == <<styleVars, cascadeVars, nameVars, chooseVars, termVars, codeVars, ordinalVars, partVars, pageVars, findVars>>
notPart == <<styleVars, cascadeVars, nameVars, chooseVars, termVars, codeVars, ordinalVars, dateVars, pageVars, findVars>>
notPage == <<styleVars, cascadeVars, nameVars, chooseVars, termVars, codeVars, ordinalVars, dateVars, partVars, findVars>>
notFind == <<styleVars, cascadeVars, nameVars, chooseVars, termVars, codeVars, ordinalVars, dateVars, partVars, pageVars>>

(***************************************************************************)
(* Style metadata                                                          *)
(***************************************************************************)
InfoLinkRel == {"Zelf", "Template", "Documentation", "IndependentParent"}
Hrefs == {"http://a", "http://b"}
InfoLink == [href : Hrefs, rel : InfoLinkRel, description : {None}, locale : {None}]

StyleAttribution(withContact) ==
    [name |-> "Jane",
     email |-> IF withContact THEN Some("jane@x") ELSE None,
     uri |-> IF withContact THEN Some("http://jane") ELSE None]

\* A StyleInfo with every optional field absent and every list empty but the links.
BareInfo(links) ==
    [authors |-> <<>>, contibutors |-> <<>>, category |-> <<>>, field |-> <<>>,
     id |-> "id", issn |-> <<>>, eissn |-> None, issnl |-> None, link |-> links,
     published |-> None, rights |-> None, summary |-> None, title |-> "Title",
     title_short |-> None, updated |-> None]

\* A StyleInfo with every field populated.
RichInfo(links) ==
    [authors |-> <<StyleAttribution(TRUE)>>, contibutors |-> <<StyleAttribution(TRUE)>>,
     category |-> <<"numeric">>, field |-> <<"law">>,
     id |-> "id", issn |-> <<"1234-5678">>, eissn |-> Some("8765-4321"),
     issnl |-> Some("1111-2222"), link |-> links,
     published |-> Some("2020"), rights |-> Some("CC"), summary |-> Some("sum"),
     title |-> "Title", title_short |-> Some("T"), updated |-> Some("2021")]

StyleInfos ==
    {BareInfo(l) : l \in SeqUpTo(InfoLink, MaxLinks)}
        \cup {RichInfo(l) : l \in SeqUpTo(InfoLink, MaxLinks)}

RawStyles ==
    [info : StyleInfos,
     default_locale : {None},
     version : {"1.0"},
     citation : OptionOf({"citation"}),
     bibliography : OptionOf({"bibliography"}),
     independent_settings : OptionOf({"settings"}),
     macros : {<<>>, <<"macro">>},
     locale : {<<>>}]

IsParentRel(link) == link.rel = "IndependentParent"
IsParentOrSelfRel(link) == link.rel \in {"IndependentParent", "Zelf"}

\* RawStyle::parent_link
parent_link(value) == FindFirst(value.info.link, IsParentRel)

Ok(x) == [ok |-> TRUE, val |-> x]
Err(e) == [ok |-> FALSE, val |-> e]

\* A validation that looks for the parent link before the bibliography.
try_from_parent_first(value) ==
    IF IsSome(value.citation) THEN
        IF IsSome(value.independent_settings) THEN
            Ok([tag |-> "Independent",
                info |-> value.info,
                default_locale |-> value.default_locale,
                version |-> value.version,
                citation |-> Unwrap(value.citation),
                bibliography |-> value.bibliography,
                settings |-> Unwrap(value.independent_settings),
                macros |-> value.macros,
                locale |-> value.locale])
        ELSE Err("MissingClassAttr")
    ELSE IF IsSome(parent_link(value)) THEN
        Ok([tag |-> "Dependent",
            info |-> value.info,
            default_locale |-> value.default_locale,
            version |-> value.version,
            parent_link |-> Unwrap(parent_link(value))])
    ELSE IF IsSome(value.bibliography) THEN Err("MissingCitation")
    ELSE Err("MissingParent")

\* impl TryFrom<RawStyle> for Style
try_from(value) ==
    LET has_bibliography == IsSome(value.bibliography) IN
    IF IsSome(value.citation) THEN
        IF IsSome(value.independent_settings) THEN
            Ok([tag |-> "Independent",
                info |-> value.info,
                default_locale |-> value.default_locale,
                version |-> value.version,
                citation |-> Unwrap(value.citation),
                bibliography |-> value.bibliography,
                settings |-> Unwrap(value.independent_settings),
                macros |-> value.macros,
                locale |-> value.locale])
        ELSE Err("MissingClassAttr")
    ELSE IF has_bibliography THEN Err("MissingCitation")
    ELSE IF IsSome(parent_link(value)) THEN
        Ok([tag |-> "Dependent",
            info |-> value.info,
            default_locale |-> value.default_locale,
            version |-> value.version,
            parent_link |-> Unwrap(parent_link(value))])
    ELSE Err("MissingParent")

\* impl From<IndependentStyle> for RawStyle
RawFromIndependent(value) ==
    [info |-> value.info,
     default_locale |-> value.default_locale,
     version |-> value.version,
     citation |-> Some(value.citation),
     bibliography |-> value.bibliography,
     independent_settings |-> Some(value.settings),
     macros |-> value.macros,
     locale |-> value.locale]

\* impl From<DependentStyle> for RawStyle
RawFromDependent(value) ==
    [info |-> value.info,
     default_locale |-> value.default_locale,
     version |-> value.version,
     citation |-> None,
     bibliography |-> None,
     independent_settings |-> None,
     macros |-> <<>>,
     locale |-> <<>>]

\* impl From<Style> for RawStyle
RawFrom(value) ==
    IF value.tag = "Independent" THEN RawFromIndependent(value)
    ELSE RawFromDependent(value)

PurgeLevel == {"Basic", "Full"}

StripContact(person) == [person EXCEPT !.email = None, !.uri = None]

\* A purge whose Full level keeps no link at all.
purge_info_drops_links(info, level) ==
    LET cleared == [info EXCEPT !.field = <<>>, !.issn = <<>>, !.eissn = None,
                                !.issnl = None, !.published = None,
                                !.summary = None, !.updated = None]
    IN  IF level = "Basic" THEN
            [cleared EXCEPT
                !.authors = [i \in DOMAIN @ |-> StripContact(@[i])],
                !.contibutors = [i \in DOMAIN @ |-> StripContact(@[i])],
                !.link = Retain(@, IsParentOrSelfRel)]
        ELSE
            [cleared EXCEPT
                !.authors = <<>>,
                !.contibutors = <<>>,
                !.link = <<>>,
                !.rights = None]

\* StyleInfo::purge
purge_info(info, level) ==
    LET cleared == [info EXCEPT !.field = <<>>, !.issn = <<>>, !.eissn = None,
                                !.issnl = None, !.published = None,
                                !.summary = None, !.updated = None]
    IN  IF level = "Basic" THEN
            [cleared EXCEPT
                !.authors = [i \in DOMAIN @ |-> StripContact(@[i])],
                !.contibutors = [i \in DOMAIN @ |-> StripContact(@[i])],
                !.link = Retain(@, IsParentOrSelfRel)]
        ELSE
            [cleared EXCEPT
                !.authors = <<>>,
                !.contibutors = <<>>,
                !.link = Retain(@, IsParentRel),
                !.rights = None]

\* Style::purge (IndependentStyle::purge / DependentStyle::purge)
purge(s, level) == [s EXCEPT !.info = purge_info(@, level)]

(***************************************************************************)
(* Style validation as a state machine                                     *)
(***************************************************************************)
StyleInit ==
    /\ raw \in RawStyles
    /\ style = None
    /\ wire = None
    /\ sent = None
    /\ reparsed = None
    /\ OnlyStyle

\* Style::deserialize: RawStyle -> Style::try_from
Validate ==
    /\ style = None
    /\ style' = Some(try_from(raw))
    /\ UNCHANGED <<raw, wire, sent, reparsed>>
    /\ UNCHANGED notStyle

\* Style::purge on a validated style
Purge ==
    /\ IsSome(style)
    /\ Unwrap(style).ok
    /\ \E level \in PurgeLevel :
        style' = Some(Ok(purge(Unwrap(style).val, level)))
    /\ UNCHANGED <<raw, wire, sent, reparsed>>
    /\ UNCHANGED notStyle

\* impl Serialize for Style: writes RawStyle::from(self.clone())
Serialize ==
    /\ IsSome(style)
    /\ Unwrap(style).ok
    /\ wire' = Some(RawFrom(Unwrap(style).val))
    /\ sent' = Some(Unwrap(style).val)
    /\ reparsed' = None
    /\ UNCHANGED <<raw, style>>
    /\ UNCHANGED notStyle

\* Style::deserialize on the record written by Serialize
Deserialize ==
    /\ IsSome(wire)
    /\ reparsed = None
    /\ reparsed' = Some(try_from(Unwrap(wire)))
    /\ UNCHANGED <<raw, style, wire, sent>>
    /\ UNCHANGED notStyle

StyleNext == Validate \/ Purge \/ Serialize \/ Deserialize

Spec == StyleInit /\ [][StyleNext]_vars

(***************************************************************************)
(* Claims about style validation                                           *)
(***************************************************************************)
HasCitation == IsSome(raw.citation)
HasBibliography == IsSome(raw.bibliography)
HasSettings == IsSome(raw.independent_settings)
HasParentLink == \E i \in DOMAIN raw.info.link : raw.info.link[i].rel = "IndependentParent"
\* The first independent-parent link of the raw record, in metadata order.
IsFirstParentLink(l) ==
    \E i \in DOMAIN raw.info.link :
        /\ raw.info.link[i] = l
        /\ l.rel = "IndependentParent"
        /\ \A j \in 1..(i - 1) : raw.info.link[j].rel # "IndependentParent"

Validated == Unwrap(style)
IsVariant(r, tag) == r.ok /\ r.val.tag = tag
IsError(r, e) == ~r.ok /\ r.val = e

\* C1: validation is a total classification: Independent iff citation and
\* settings are present; MissingClassAttr iff citation is present and the
\* settings are absent; MissingCitation iff citation is absent and
\* bibliography is present; Dependent iff citation and bibliography are absent
\* and an independent-parent link exists, carrying the first such link;
\* MissingParent in every remaining case.
C1_Classification ==
    IsSome(style) =>
        /\ IsVariant(Validated, "Independent") <=> (HasCitation /\ HasSettings)
        /\ IsError(Validated, "MissingClassAttr") <=> (HasCitation /\ ~HasSettings)
        /\ IsError(Validated, "MissingCitation") <=> (~HasCitation /\ HasBibliography)
        /\ IsVariant(Validated, "Dependent")
                <=> (~HasCitation /\ ~HasBibliography /\ HasParentLink)
        /\ IsVariant(Validated, "Dependent") => IsFirstParentLink(Validated.val.parent_link)
        /\ IsError(Validated, "MissingParent")
                <=> (~HasCitation /\ ~HasBibliography /\ ~HasParentLink)

\* A dependent style was validated from a record holding two different
\* independent-parent links.
C1_Witness ==
    /\ IsSome(style)
    /\ IsVariant(Validated, "Dependent")
    /\ Len(raw.info.link) = 2
    /\ raw.info.link[1].rel = "IndependentParent"
    /\ raw.info.link[2].rel = "IndependentParent"
    /\ raw.info.link[1] # raw.info.link[2]

\* C2: a style produced by validation, after any sequence of purges, written
\* back as a raw record and validated again yields a style equal to the one
\* that was written.
C2_RoundTrip ==
    IsSome(reparsed) => Unwrap(reparsed) = Ok(Unwrap(sent))

\* A dependent style whose links were purged made the round trip.
C2_Witness ==
    /\ IsSome(reparsed)
    /\ Unwrap(sent).tag = "Dependent"
    /\ Len(Unwrap(sent).info.link) < Len(raw.info.link)
    /\ Unwrap(sent).info.rights = None
    /\ raw.info.rights # None

(***************************************************************************)
(* Inheritable name options                                                *)
(***************************************************************************)
OptionFields ==
    {"and", "name_delimiter", "names_delimiter", "delimiter_precedes_et_al",
     "delimiter_precedes_last", "et_al_min", "et_al_use_first",
     "et_al_subsequent_min", "et_al_subsequent_use_first", "et_al_use_last",
     "name_form", "initialize", "initialize_with", "name_as_sort_order",
     "sort_separator"}

NameAnd == <<"Text", "Symbol">>
DelimiterBehavior == <<"Contextual", "AfterInvertedName", "Always", "Never">>
NameForm == <<"Long", "Short", "Count">>
NameAsSortOrder == <<"First", "All">>
Bools == <<FALSE, TRUE>>
EtAlValues == [i \in 1..(MaxEtAl + 1) |-> i - 1]

\* The values each field of InheritableNameOptions takes, in a fixed order.
OptionValues ==
    [and |-> NameAnd,
     name_delimiter |-> <<", ", "; ">>,
     names_delimiter |-> <<". ", " / ">>,
     delimiter_precedes_et_al |-> DelimiterBehavior,
     delimiter_precedes_last |-> DelimiterBehavior,
     et_al_min |-> EtAlValues,
     et_al_use_first |-> EtAlValues,
     et_al_subsequent_min |-> EtAlValues,
     et_al_subsequent_use_first |-> EtAlValues,
     et_al_use_last |-> Bools,
     name_form |-> NameForm,
     initialize |-> Bools,
     initialize_with |-> <<".", ". ">>,
     name_as_sort_order |-> NameAsSortOrder,
     sort_separator |-> <<", ", " ">>]

Range(q) == {q[i] : i \in DOMAIN q}

\* InheritableNameOptions::default(): every field unset.
DefaultOptions == [f \in OptionFields |-> None]

\* The options of nesting level k with every field set; neighbouring levels
\* set different values.
FullOptions(k) ==
    [f \in OptionFields |->
        Some(OptionValues[f][((k - 1) % Len(OptionValues[f])) + 1])]

\* The option records of level k that are arbitrary in field f and either
\* empty or fully set in the other fields.
OptionsAt(k, f) ==
    {[base EXCEPT ![f] = x] :
        base \in {DefaultOptions, FullOptions(k)},
        x \in OptionOf(Range(OptionValues[f]))}

\* An apply that takes et_al_min with Option::xor instead of Option::or.
apply_xor(self, child) ==
    [and |-> Or(child.and, self.and),
     name_delimiter |-> Or(child.name_delimiter, self.name_delimiter),
     names_delimiter |-> Or(child.names_delimiter, self.names_delimiter),
     delimiter_precedes_et_al |->
        Or(child.delimiter_precedes_et_al, self.delimiter_precedes_et_al),
     delimiter_precedes_last |->
        Or(child.delimiter_precedes_last, self.delimiter_precedes_last),
     et_al_min |->
        IF IsSome(child.et_al_min) /\ IsSome(self.et_al_min) THEN None
        ELSE Or(child.et_al_min, self.et_al_min),
     et_al_use_first |-> Or(child.et_al_use_first, self.et_al_use_first),
     et_al_subsequent_min |-> Or(child.et_al_subsequent_min, self.et_al_subsequent_min),
     et_al_subsequent_use_first |->
        Or(child.et_al_subsequent_use_first, self.et_al_subsequent_use_first),
     et_al_use_last |-> Or(child.et_al_use_last, self.et_al_use_last),
     name_form |-> Or(child.name_form, self.name_form),
     initialize |-> Or(child.initialize, self.initialize),
     initialize_with |-> Or(child.initialize_with, self.initialize_with),
     name_as_sort_order |-> Or(child.name_as_sort_order, self.name_as_sort_order),
     sort_separator |-> Or(child.sort_separator, self.sort_separator)]

\* An apply that lets the parent win for sort_separator.
apply_parent_wins(self, child) ==
    [and |-> Or(child.and, self.and),
     name_delimiter |-> Or(child.name_delimiter, self.name_delimiter),
     names_delimiter |-> Or(child.names_delimiter, self.names_delimiter),
     delimiter_precedes_et_al |->
        Or(child.delimiter_precedes_et_al, self.delimiter_precedes_et_al),
     delimiter_precedes_last |->
        Or(child.delimiter_precedes_last, self.delimiter_precedes_last),
     et_al_min |-> Or(child.et_al_min, self.et_al_min),
     et_al_use_first |-> Or(child.et_al_use_first, self.et_al_use_first),
     et_al_subsequent_min |-> Or(child.et_al_subsequent_min, self.et_al_subsequent_min),
     et_al_subsequent_use_first |->
        Or(child.et_al_subsequent_use_first, self.et_al_subsequent_use_first),
     et_al_use_last |-> Or(child.et_al_use_last, self.et_al_use_last),
     name_form |-> Or(child.name_form, self.name_form),
     initialize |-> Or(child.initialize, self.initialize),
     initialize_with |-> Or(child.initialize_with, self.initialize_with),
     name_as_sort_order |-> Or(child.name_as_sort_order, self.name_as_sort_order),
     sort_separator |-> Or(self.sort_separator, child.sort_separator)]

\* InheritableNameOptions::apply
apply(self, child) ==
    [and |-> Or(child.and, self.and),
     name_delimiter |-> Or(child.name_delimiter, self.name_delimiter),
     names_delimiter |-> Or(child.names_delimiter, self.names_delimiter),
     delimiter_precedes_et_al |->
        Or(child.delimiter_precedes_et_al, self.delimiter_precedes_et_al),
     delimiter_precedes_last |->
        Or(child.delimiter_precedes_last, self.delimiter_precedes_last),
     et_al_min |-> Or(child.et_al_min, self.et_al_min),
     et_al_use_first |-> Or(child.et_al_use_first, self.et_al_use_first),
     et_al_subsequent_min |-> Or(child.et_al_subsequent_min, self.et_al_subsequent_min),
     et_al_subsequent_use_first |->
        Or(child.et_al_subsequent_use_first, self.et_al_subsequent_use_first),
     et_al_use_last |-> Or(child.et_al_use_last, self.et_al_use_last),
     name_form |-> Or(child.name_form, self.name_form),
     initialize |-> Or(child.initialize, self.initialize),
     initialize_with |-> Or(child.initialize_with, self.initialize_with),
     name_as_sort_order |-> Or(child.name_as_sort_order, self.name_as_sort_order),
     sort_separator |-> Or(child.sort_separator, self.sort_separator)]

(***************************************************************************)
(* The option cascade as a state machine                                   *)
(***************************************************************************)
CascadeInit ==
    /\ \E f \in OptionFields :
        /\ ancestor \in OptionsAt(1, f)
        /\ middle \in OptionsAt(2, f)
        /\ leaf \in OptionsAt(3, f)
    /\ merged = None
    /\ left = None
    /\ right = None
    /\ OnlyCascade

\* ancestor.apply(&middle)
ApplyPair ==
    /\ merged = None
    /\ merged' = Some(apply(ancestor, middle))
    /\ UNCHANGED <<ancestor, middle, leaf, left, right>>
    /\ UNCHANGED notCascade

\* ancestor.apply(&middle).apply(&leaf): the cascade merged level by level
ApplyLeft ==
    /\ IsSome(merged)
    /\ left = None
    /\ left' = Some(apply(Unwrap(merged), leaf))
    /\ UNCHANGED <<ancestor, middle, leaf, merged, right>>
    /\ UNCHANGED notCascade

\* ancestor.apply(&middle.apply(&leaf)): the inner levels merged first
ApplyRight ==
    /\ right = None
    /\ right' = Some(apply(ancestor, apply(middle, leaf)))
    /\ UNCHANGED <<ancestor, middle, leaf, merged, left>>
    /\ UNCHANGED notCascade

CascadeNext == ApplyPair \/ ApplyLeft \/ ApplyRight

SpecCascade == CascadeInit /\ [][CascadeNext]_vars

\* C3: apply(parent, child) is field-wise override-if-present: each of the
\* fifteen fields of the merged record is the child's value when the child
\* sets it and the parent's value otherwise.
C3_OverrideIfPresent ==
    IsSome(merged) =>
        /\ DOMAIN Unwrap(merged) = OptionFields
        /\ Cardinality(OptionFields) = 15
        /\ \A f \in OptionFields :
            Unwrap(merged)[f] = (IF middle[f] # None THEN middle[f] ELSE ancestor[f])

\* A merge in which the child overrides a field the parent sets differently,
\* and inherits another field from the parent.
C3_Witness ==
    /\ IsSome(merged)
    /\ IsSome(ancestor.sort_separator) /\ IsSome(middle.sort_separator)
    /\ ancestor.sort_separator # middle.sort_separator
    /\ Unwrap(merged).sort_separator = middle.sort_separator
    /\ \E f \in OptionFields :
        IsNone(middle[f]) /\ IsSome(ancestor[f]) /\ Unwrap(merged)[f] = ancestor[f]

\* C4: the merge is associative: apply(apply(a, b), c) = apply(a, apply(b, c)).
C4_Associative ==
    (IsSome(left) /\ IsSome(right)) => Unwrap(left) = Unwrap(right)

\* Both groupings were computed for three levels that all set et_al_min,
\* the outer and the inner one differently.
C4_Witness ==
    /\ IsSome(left) /\ IsSome(right)
    /\ IsSome(ancestor.et_al_min) /\ IsSome(middle.et_al_min) /\ IsSome(leaf.et_al_min)
    /\ ancestor.et_al_min # leaf.et_al_min
    /\ Unwrap(left).et_al_min = leaf.et_al_min

(***************************************************************************)
(* The name element: Name::options and NameOptions::is_suppressed          *)
(***************************************************************************)
\* Option::unwrap_or
unwrap_or(o, d) == IF IsSome(o) THEN Unwrap(o) ELSE d

\* usize::MAX.  The checker's integers end at 2^31 - 1, which stands for it:
\* every index and length of the model lies far below.
usize_MAX == 2147483647

\* Option::map_or(usize::MAX, |u| u as usize)
map_or_MAX(o) == IF IsSome(o) THEN Unwrap(o) ELSE usize_MAX

\* The delimiter attributes written on a cs:name element.
NameDelimiters == {"; ", " & "}

\* Name elements: delimiter and form attributes and the flattened options
\* (name parts, formatting and affixes take no part in the options).
NamesAt(k, f) ==
    [delimiter : OptionOf(NameDelimiters),
     form : OptionOf(Range(NameForm)),
     options : OptionsAt(k, f)]

\* Name::default()
DefaultName == [delimiter |-> None, form |-> None, options |-> DefaultOptions]

\* Name::options
name_options(self, inh) ==
    LET applied == apply(inh, self.options) IN
    [and |-> applied.and,
     delimiter |-> unwrap_or(Or(self.delimiter, inh.name_delimiter), ", "),
     delimiter_precedes_et_al |-> unwrap_or(applied.delimiter_precedes_et_al, "Contextual"),
     delimiter_precedes_last |-> unwrap_or(applied.delimiter_precedes_last, "Contextual"),
     et_al_min |-> applied.et_al_min,
     et_al_use_first |-> applied.et_al_use_first,
     et_al_subsequent_min |-> applied.et_al_subsequent_min,
     et_al_subsequent_use_first |-> applied.et_al_subsequent_use_first,
     et_al_use_last |-> unwrap_or(applied.et_al_use_last, FALSE),
     form |-> unwrap_or(Or(self.form, inh.name_form), "Long"),
     initialize |-> unwrap_or(applied.initialize, TRUE),
     initialize_with |-> Or(self.options.initialize_with, inh.initialize_with),
     name_as_sort_order |-> applied.name_as_sort_order,
     sort_separator |-> unwrap_or(Or(self.options.sort_separator, inh.sort_separator), ", ")]

\* An is_suppressed that compares idx, not idx + 1, with et_al_use_first.
is_suppressed_off_by_one(self, idx, length, is_subsequent) ==
    IF self.et_al_use_last /\ idx + 1 >= length THEN FALSE
    ELSE
        LET et_al_min ==
                map_or_MAX(IF is_subsequent
                           THEN Or(self.et_al_subsequent_min, self.et_al_min)
                           ELSE self.et_al_min)
            et_al_use_first ==
                map_or_MAX(IF is_subsequent
                           THEN Or(self.et_al_subsequent_use_first, self.et_al_use_first)
                           ELSE self.et_al_use_first)
        IN  length >= et_al_min /\ idx > et_al_use_first

\* NameOptions::is_suppressed
is_suppressed(self, idx, length, is_subsequent) ==
    IF self.et_al_use_last /\ idx + 1 >= length THEN FALSE
    ELSE
        LET et_al_min ==
                map_or_MAX(IF is_subsequent
                           THEN Or(self.et_al_subsequent_min, self.et_al_min)
                           ELSE self.et_al_min)
            et_al_use_first ==
                map_or_MAX(IF is_subsequent
                           THEN Or(self.et_al_subsequent_use_first, self.et_al_use_first)
                           ELSE self.et_al_use_first)
        IN  length >= et_al_min /\ idx + 1 > et_al_use_first

\* A name element and the options it inherits, arbitrary in one field.
NameInit ==
    /\ \E f \in OptionFields :
        /\ inherited \in OptionsAt(1, f)
        /\ name \in NamesAt(2, f)
    /\ options = None
    /\ query = None
    /\ suppressed = None
    /\ OnlyName

\* Inherited options that are arbitrary in the et-al fields, and a name
\* element that overrides nothing.
SuppressInit ==
    /\ inherited \in
        {[DefaultOptions EXCEPT
            !.et_al_min = m, !.et_al_use_first = u,
            !.et_al_subsequent_min = sm, !.et_al_subsequent_use_first = su,
            !.et_al_use_last = l] :
         m \in OptionOf(Range(EtAlValues)), u \in OptionOf(Range(EtAlValues)),
         sm \in OptionOf(Range(EtAlValues)), su \in OptionOf(Range(EtAlValues)),
         l \in OptionOf(BOOLEAN)}
    /\ name = DefaultName
    /\ options = None
    /\ query = None
    /\ suppressed = None
    /\ OnlyName

\* name.options(&inherited)
ResolveOptions ==
    /\ options = None
    /\ options' = Some(name_options(name, inherited))
    /\ UNCHANGED <<inherited, name, query, suppressed>>
    /\ UNCHANGED notName

\* options.is_suppressed(idx, length, is_subsequent)
IsSuppressed ==
    /\ IsSome(options)
    /\ suppressed = None
    /\ \E idx \in 0..MaxNames, length \in 0..MaxNames, is_subsequent \in BOOLEAN :
        /\ query' = Some([idx |-> idx, length |-> length, is_subsequent |-> is_subsequent])
        /\ suppressed' = Some(is_suppressed(Unwrap(options), idx, length, is_subsequent))
    /\ UNCHANGED <<inherited, name, options>>
    /\ UNCHANGED notName

SpecName == NameInit /\ [][ResolveOptions]_vars

SpecSuppress == SuppressInit /\ [][ResolveOptions \/ IsSuppressed]_vars

(***************************************************************************)
(* Claims about the name element                                           *)
(***************************************************************************)
Asked == Unwrap(query)
Resolved == Unwrap(options)
\* The threshold is_suppressed selects: the one of subsequent citations when
\* the citation is subsequent and that threshold is set, else the primary one.
Selected(subsequent, primary) ==
    IF Asked.is_subsequent /\ subsequent # None THEN subsequent ELSE primary
SelectedMin == Selected(Resolved.et_al_subsequent_min, Resolved.et_al_min)
SelectedUseFirst == Selected(Resolved.et_al_subsequent_use_first, Resolved.et_al_use_first)
IsLastWithUseLast == Resolved.et_al_use_last /\ Asked.idx + 1 >= Asked.length

\* C5: is_suppressed is false when et-al-use-last is set and the index is the
\* last one; otherwise it is true exactly when total >= min and
\* index + 1 > use_first for the selected thresholds, and false when a
\* selected threshold is unset.
C5_IsSuppressed ==
    IsSome(suppressed) =>
        Unwrap(suppressed) =
            (/\ ~IsLastWithUseLast
             /\ SelectedMin # None
             /\ SelectedUseFirst # None
             /\ Asked.length >= Unwrap(SelectedMin)
             /\ Asked.idx + 1 > Unwrap(SelectedUseFirst))

\* A subsequent citation suppresses a name by the thresholds of subsequent
\* citations although the primary thresholds would keep it.
C5_Witness ==
    /\ IsSome(suppressed)
    /\ Unwrap(suppressed)
    /\ Asked.is_subsequent
    /\ Resolved.et_al_subsequent_min # None
    /\ Resolved.et_al_min # None
    /\ Asked.length < Unwrap(Resolved.et_al_min)
    /\ Resolved.et_al_use_first = None
    /\ Resolved.et_al_use_last

\* The own overrides a name element may declare for an inherited field that
\* it can also write as an attribute.
OwnOverrides(attribute, option) ==
    IF attribute = None /\ option = None THEN {None} ELSE {attribute, option} \ {None}

\* C6: every option Name::options returns is the result of the full cascade
\* (the inherited options overridden by the name element's form and
\* delimiter attributes and by its own inheritable options) when that
\* result is set, and the default otherwise.
C6_FullCascade ==
    IsSome(options) =>
        LET cascade == apply(inherited, name.options) IN
        /\ Resolved.form \in
            {unwrap_or(Or(own, inherited.name_form), "Long") :
                own \in OwnOverrides(name.form, name.options.name_form)}
        /\ Resolved.delimiter \in
            {unwrap_or(Or(own, inherited.name_delimiter), ", ") :
                own \in OwnOverrides(name.delimiter, name.options.name_delimiter)}
        /\ Resolved.initialize = unwrap_or(cascade.initialize, TRUE)
        /\ Resolved.sort_separator = unwrap_or(cascade.sort_separator, ", ")
        /\ Resolved.delimiter_precedes_et_al
                = unwrap_or(cascade.delimiter_precedes_et_al, "Contextual")
        /\ Resolved.delimiter_precedes_last
                = unwrap_or(cascade.delimiter_precedes_last, "Contextual")
        /\ Resolved.et_al_use_last = unwrap_or(cascade.et_al_use_last, FALSE)
        /\ Resolved.and = cascade.and
        /\ Resolved.et_al_min = cascade.et_al_min
        /\ Resolved.et_al_use_first = cascade.et_al_use_first
        /\ Resolved.et_al_subsequent_min = cascade.et_al_subsequent_min
        /\ Resolved.et_al_subsequent_use_first = cascade.et_al_subsequent_use_first
        /\ Resolved.initialize_with = cascade.initialize_with
        /\ Resolved.name_as_sort_order = cascade.name_as_sort_order

(***************************************************************************)
(* Conditional branches: ChooseBranch::test and ChooseMatch::test          *)
(***************************************************************************)
ChooseMatch == {"All", "Any", "None"}

\* The test attributes of a branch with the ChooseTest variant each yields.
TestFields == {"is_numeric", "is_uncertain_date", "locator", "position", "type_", "variable"}
TestKind ==
    [is_numeric |-> "IsNumeric", is_uncertain_date |-> "IsUncertainDate",
     locator |-> "Locator", position |-> "Position", type_ |-> "Type",
     variable |-> "Variable"]
\* One value of each attribute's element type.
TestValue ==
    [is_numeric |-> "volume", is_uncertain_date |-> "issued", locator |-> "page",
     position |-> "ibid", type_ |-> "book", variable |-> "title"]
\* The value lists an attribute carries: absent, empty or one value.
TestLists(f) == {None, Some(<<>>), Some(<<TestValue[f]>>)}

ChooseBranches ==
    [disambiguate : OptionOf(BOOLEAN),
     is_numeric : TestLists("is_numeric"),
     is_uncertain_date : TestLists("is_uncertain_date"),
     locator : TestLists("locator"),
     position : TestLists("position"),
     type_ : TestLists("type_"),
     variable : TestLists("variable"),
     match_ : ChooseMatch,
     children : {<<>>}]

Disambiguate == [kind |-> "Disambiguate", values |-> <<>>]
ChooseTest(kind, values) == [kind |-> kind, values |-> values]

\* ChooseBranch::test
branch_test(self) ==
    IF IsSome(self.disambiguate) THEN
        IF ~Unwrap(self.disambiguate) THEN None
        ELSE Some(Disambiguate)
    ELSE IF IsSome(self.is_numeric) THEN
        Some(ChooseTest("IsNumeric", Unwrap(self.is_numeric)))
    ELSE IF IsSome(self.is_uncertain_date) THEN
        Some(ChooseTest("IsUncertainDate", Unwrap(self.is_uncertain_date)))
    ELSE IF IsSome(self.locator) THEN
        Some(ChooseTest("Locator", Unwrap(self.locator)))
    ELSE IF IsSome(self.position) THEN
        Some(ChooseTest("Position", Unwrap(self.position)))
    ELSE IF IsSome(self.type_) THEN
        Some(ChooseTest("Type", Unwrap(self.type_)))
    ELSE IF IsSome(self.variable) THEN
        Some(ChooseTest("Variable", Unwrap(self.variable)))
    ELSE None

\* Iterator::all(|t| t): stops at the first false item.
RECURSIVE IterAll(_)
IterAll(s) ==
    IF s = <<>> THEN TRUE
    ELSE IF ~Head(s) THEN FALSE
    ELSE IterAll(Tail(s))

\* Iterator::any(|t| t): stops at the first true item.
RECURSIVE IterAny(_)
IterAny(s) ==
    IF s = <<>> THEN FALSE
    ELSE IF Head(s) THEN TRUE
    ELSE IterAny(Tail(s))

\* The closure |t| !t applied to every item.
Negated(s) == [i \in DOMAIN s |-> ~s[i]]

\* A ChooseMatch::test whose None arm is the negation of the All arm.
match_test_not_all(self, results) ==
    CASE self = "All" -> IterAll(results)
      [] self = "Any" -> IterAny(results)
      [] self = "None" -> ~IterAll(results)

\* ChooseMatch::test
match_test(self, results) ==
    CASE self = "All" -> IterAll(results)
      [] self = "Any" -> IterAny(results)
      [] self = "None" -> IterAll(Negated(results))

BranchInit ==
    /\ branch \in ChooseBranches
    /\ test = None
    /\ tests = None
    /\ verdict = None
    /\ OnlyChoose

\* branch.test()
BranchTest ==
    /\ test = None
    /\ test' = Some(branch_test(branch))
    /\ UNCHANGED <<branch, tests, verdict>>
    /\ UNCHANGED notChoose

MatchInit ==
    /\ tests \in SeqUpTo(BOOLEAN, MaxTests)
    /\ verdict = [m \in ChooseMatch |-> None]
    /\ branch = None
    /\ test = None
    /\ OnlyChoose

\* match_.test(tests.iter())
MatchTest ==
    /\ \E m \in ChooseMatch :
        /\ verdict[m] = None
        /\ verdict' = [verdict EXCEPT ![m] = Some(match_test(m, tests))]
    /\ UNCHANGED <<branch, test, tests>>
    /\ UNCHANGED notChoose

SpecBranch == BranchInit /\ [][BranchTest]_vars

SpecMatch == MatchInit /\ [][MatchTest]_vars

(***************************************************************************)
(* Claims about conditional branches                                       *)
(***************************************************************************)
SetTestFields == {f \in TestFields : branch[f] # None}
BranchResult == Unwrap(test)

\* C7: ChooseBranch::test returns no test exactly when no test field is set
\* and the disambiguate flag is absent or false; in every other case it
\* returns Disambiguate when the flag is true, otherwise the test of a set
\* field with its value list.
C7_ActiveTest ==
    IsSome(test) =>
        /\ BranchResult = None
            <=> (SetTestFields = {} /\ branch.disambiguate # Some(TRUE))
        /\ branch.disambiguate = Some(TRUE) => BranchResult = Some(Disambiguate)
        /\ (branch.disambiguate # Some(TRUE) /\ SetTestFields # {}) =>
            \E f \in SetTestFields :
                BranchResult = Some(ChooseTest(TestKind[f], Unwrap(branch[f])))

Verdict(m) == Unwrap(verdict[m])

\* C8: over a list of sub-test results All is true iff every result is
\* true, Any iff at least one is true, None iff every result is false; so
\* None is the negation of Any, and on the empty list All and None are true
\* and Any is false.
C8_MatchModes ==
    /\ IsSome(verdict["All"]) => (Verdict("All") <=> \A i \in DOMAIN tests : tests[i])
    /\ IsSome(verdict["Any"]) => (Verdict("Any") <=> \E i \in DOMAIN tests : tests[i])
    /\ IsSome(verdict["None"]) => (Verdict("None") <=> \A i \in DOMAIN tests : ~tests[i])
    /\ (IsSome(verdict["Any"]) /\ IsSome(verdict["None"]))
            => (Verdict("None") <=> ~Verdict("Any"))
    /\ (tests = <<>> /\ \A m \in ChooseMatch : IsSome(verdict[m]))
            => (Verdict("All") /\ Verdict("None") /\ ~Verdict("Any"))

\* All three modes were evaluated on a list of mixed results, where All and
\* None are both false and Any is true.
C8_Witness ==
    /\ verdict # None
    /\ \A m \in ChooseMatch : IsSome(verdict[m])
    /\ \E i \in DOMAIN tests : tests[i]
    /\ \E i \in DOMAIN tests : ~tests[i]
    /\ ~Verdict("All") /\ ~Verdict("None") /\ Verdict("Any")

(***************************************************************************)
(* Locale terms: Term::is_lexically_same and Locale::term                  *)
(***************************************************************************)
\* A Term is a variant of the untagged enum with the value it wraps.
Term(class, key) == [class |-> class, key |-> key]

\* The terms the modelled locales define and callers ask for.
Terms ==
    {Term("Locator", "Page"), Term("NumberVariable", "Page"),
     Term("Kind", "Book"), Term("Other", "And")}

TermForm == {"Long", "Short", "Verb", "VerbShort", "Symbol"}

\* TermForm::fallback
form_fallback(self) ==
    CASE self = "Long" -> None
      [] self = "Short" -> Some("Long")
      [] self = "Verb" -> Some("Long")
      [] self = "VerbShort" -> Some("Verb")
      [] self = "Symbol" -> Some("Short")

\* The closure cmp of Term::is_lexically_same.
lexical_cmp(a, b) ==
    \/ a = Term("Locator", "Issue") /\ b = Term("NumberVariable", "Issue")
    \/ a = Term("Locator", "Page") /\ b = Term("NumberVariable", "Page")
    \/ a = Term("Locator", "Section") /\ b = Term("NumberVariable", "Section")
    \/ a = Term("Locator", "Volume") /\ b = Term("NumberVariable", "Volume")
    \/ a = Term("Locator", "Book") /\ b = Term("Kind", "Book")
    \/ a = Term("Locator", "Chapter") /\ b = Term("Kind", "Chapter")
    \/ a = Term("Locator", "Figure") /\ b = Term("Kind", "Figure")

\* Term::is_lexically_same
is_lexically_same(self, other) ==
    IF self = other THEN TRUE
    ELSE lexical_cmp(self, other) \/ lexical_cmp(other, self)

\* The LocalizedTerm at position i of a locale: its text names the position
\* (match, gender and gender-form are unset).
LocalizedTerm(t, form, i) ==
    [name |-> t, form |-> form, localization |-> Some(i),
     single |-> None, multiple |-> None,
     match_ |-> None, gender |-> None, gender_form |-> None]

TermLists ==
    {[i \in DOMAIN l |-> LocalizedTerm(l[i][1], l[i][2], i)] :
        l \in SeqUpTo(Terms \X TermForm, MaxTerms)}

\* Locales: without a cs:terms element, or with a list of terms.
Locales ==
    {[lang |-> None, info |-> None, terms |-> ts, date |-> <<>>, style_options |-> None] :
        ts \in {None} \cup {Some([terms |-> l]) : l \in TermLists}}

\* A Locale::term that also accepts a term in the fallback of the form.
locale_term_with_fallback(self, t, form) ==
    IF IsNone(self.terms) THEN None
    ELSE
        LET Matches(x) ==
                /\ is_lexically_same(x.name, t)
                /\ (x.form = form \/ Some(x.form) = form_fallback(form))
        IN  FindFirst(Unwrap(self.terms).terms, Matches)

\* Locale::term
locale_term(self, t, form) ==
    IF IsNone(self.terms) THEN None
    ELSE
        LET Matches(x) == is_lexically_same(x.name, t) /\ x.form = form
        IN  FindFirst(Unwrap(self.terms).terms, Matches)

TermInit ==
    /\ locale \in Locales
    /\ request \in [term : Terms, form : TermForm]
    /\ found = None
    /\ OnlyTerm

\* locale.term(term, form)
LookupTerm ==
    /\ found = None
    /\ found' = Some(locale_term(locale, request.term, request.form))
    /\ UNCHANGED <<locale, request>>
    /\ UNCHANGED notTerm

SpecTerm == TermInit /\ [][LookupTerm]_vars

(***************************************************************************)
(* Claims about locale terms                                               *)
(***************************************************************************)
Found == Unwrap(found)
DefinedTerms == IF IsNone(locale.terms) THEN <<>> ELSE Unwrap(locale.terms).terms

\* The pairs of different terms that are written the same in a locale file.
SameWritten ==
    {<<Term("Locator", k), Term("NumberVariable", k)>> :
        k \in {"Issue", "Page", "Section", "Volume"}}
    \cup {<<Term("Locator", k), Term("Kind", k)>> : k \in {"Book", "Chapter", "Figure"}}
SameKey(a, b) == a = b \/ <<a, b>> \in SameWritten \/ <<b, a>> \in SameWritten

\* Whether the term at position i is the first one with a key Same-related to
\* the requested key and with the requested form.
IsFirstMatch(i, Same(_, _)) ==
    /\ Same(DefinedTerms[i].name, request.term)
    /\ DefinedTerms[i].form = request.form
    /\ \A j \in 1..(i - 1) :
        ~(Same(DefinedTerms[j].name, request.term) /\ DefinedTerms[j].form = request.form)

\* One lookup: the result is the first term matching under Same, or nothing
\* when no term matches.
OneLookup(Same(_, _)) ==
    IsSome(found) =>
        /\ IsSome(Found) =>
            \E i \in DOMAIN DefinedTerms :
                Unwrap(Found) = DefinedTerms[i] /\ IsFirstMatch(i, Same)
        /\ IsNone(Found) =>
            \A i \in DOMAIN DefinedTerms : ~IsFirstMatch(i, Same)

\* C9 as stated: the term returned has exactly the requested key and the
\* requested form (the first such term), and nothing is returned when the
\* locale defines the key only in another form.
C9_ExactKey == OneLookup(=)

\* C9 amended: the term returned is the first one whose form is the
\* requested form and whose key is the requested key or is written the same
\* (a locator and the number variable or kind of the same name); nothing is
\* returned when no term is such, also when the key is defined only in
\* another form such as the fallback of the requested form.
C9_LexicalKey == OneLookup(SameKey)

\* The lookup passed over a term with the requested key in the fallback of
\* the requested form and found, behind it, a term written the same under
\* another key in the requested form.
C9_Witness ==
    /\ IsSome(found)
    /\ IsSome(Found)
    /\ Len(DefinedTerms) = 2
    /\ DefinedTerms[1].name = request.term
    /\ Some(DefinedTerms[1].form) = form_fallback(request.form)
    /\ Unwrap(Found) = DefinedTerms[2]
    /\ Unwrap(Found).name # request.term

(***************************************************************************)
(* Locale codes: LocaleCode::parse_base and LocaleCode::fallback           *)
(***************************************************************************)
\* A string is the sequence of its characters.
Hyphen == "-"

\* str::split(sep): the parts of s between the separators, at least one.
RECURSIVE Split(_, _)
Split(s, sep) ==
    IF \A i \in DOMAIN s : s[i] # sep THEN <<s>>
    ELSE LET at == CHOOSE i \in DOMAIN s : s[i] = sep /\ \A j \in 1..(i - 1) : s[j] # sep
         IN  <<SubSeq(s, 1, at - 1)>> \o Split(SubSeq(s, at + 1, Len(s)), sep)

\* Iterator::take(n)
Take(s, n) == SubSeq(s, 1, IF Len(s) < n THEN Len(s) ELSE n)

\* The rows of the match in LocaleCode::fallback: the two letters of the
\* language and the two letters of the region of its fallback.
FallbackRows ==
    {
     <<"a", "f", "Z", "A">>, <<"b", "g", "B", "G">>,
     <<"c", "a", "A", "D">>, <<"c", "s", "C", "Z">>,
     <<"d", "a", "D", "K">>, <<"d", "e", "D", "E">>,
     <<"e", "l", "G", "R">>, <<"e", "n", "U", "S">>,
     <<"e", "s", "E", "S">>, <<"e", "t", "E", "E">>,
     <<"f", "a", "I", "R">>, <<"f", "i", "F", "I">>,
     <<"f", "r", "F", "R">>, <<"h", "e", "I", "L">>,
     <<"h", "r", "H", "R">>, <<"h", "u", "H", "U">>,
     <<"i", "s", "I", "S">>, <<"i", "t", "I", "T">>,
     <<"j", "a", "J", "P">>, <<"k", "m", "K", "H">>,
     <<"k", "o", "K", "R">>, <<"l", "t", "L", "T">>,
     <<"l", "v", "L", "V">>, <<"m", "n", "M", "N">>,
     <<"n", "b", "N", "O">>, <<"n", "l", "N", "L">>,
     <<"n", "n", "N", "O">>, <<"p", "l", "P", "L">>,
     <<"p", "t", "P", "T">>, <<"r", "o", "R", "O">>,
     <<"r", "u", "R", "U">>, <<"s", "k", "S", "K">>,
     <<"s", "l", "S", "I">>, <<"s", "r", "R", "S">>,
     <<"s", "v", "S", "E">>, <<"t", "h", "T", "H">>,
     <<"t", "r", "T", "R">>, <<"u", "k", "U", "A">>,
     <<"v", "i", "V", "N">>, <<"z", "h", "C", "N">>
    }

\* The zero byte that fills the code of an unregistered language.
NulByte == "NUL"

\* LocaleCode::parse_base
parse_base(self) ==
    LET parts == Take(Split(self, Hyphen), 2)
        head == parts[1]
    IN  IF head \in {<<"i">>, <<"I">>} THEN
            IF Len(parts) < 2 THEN None
            ELSE IF parts[2] = <<>> THEN None
            ELSE Some([kind |-> "Iana", code |-> parts[2]])
        ELSE IF head \in {<<"x">>, <<"X">>} THEN
            IF Len(parts) < 2 THEN None
            ELSE IF Len(parts[2]) > 8 \/ parts[2] = <<>> THEN None
            ELSE Some([kind |-> "Unregistered",
                       code |-> parts[2] \o [i \in 1..(8 - Len(parts[2])) |-> NulByte]])
        ELSE IF Len(head) = 2 THEN Some([kind |-> "Iso639_1", code |-> head])
        ELSE None

\* The arm of the match for a two-letter code: the fallback string, if any.
FallbackOf(lang) ==
    IF \E r \in FallbackRows : <<r[1], r[2]>> = lang
    THEN LET r == CHOOSE r \in FallbackRows : <<r[1], r[2]>> = lang
         IN  Some(<<r[1], r[2], Hyphen, r[3], r[4]>>)
    ELSE None

\* A fallback without the final filter(|f| f != self).
fallback_unfiltered(self) ==
    LET base == parse_base(self) IN
    IF IsNone(base) THEN None
    ELSE IF Unwrap(base).kind = "Iso639_1" THEN FallbackOf(Unwrap(base).code)
    ELSE None

\* A fallback that answers only codes without a region.
fallback_bare_only(self) ==
    IF Len(Split(self, Hyphen)) > 1 THEN None ELSE fallback_unfiltered(self)

\* LocaleCode::fallback
fallback(self) ==
    LET base == parse_base(self) IN
    IF IsNone(base) THEN None
    ELSE IF Unwrap(base).kind = "Iso639_1" THEN
        LET f == FallbackOf(Unwrap(base).code) IN
        IF IsSome(f) /\ Unwrap(f) # self THEN f ELSE None
    ELSE None

\* The first parts of the modelled codes: the languages of the table, a
\* language outside it, an upper-case one, a three-letter one, the IANA and
\* private-use prefixes, and the empty string.
LanguageParts ==
    {<<r[1], r[2]>> : r \in FallbackRows}
        \cup {<<"x", "x">>, <<"E", "N">>, <<"e", "n", "g">>, <<"i">>, <<"x">>, <<"I">>, <<>>}

\* The further parts: a region of the table, one outside it, a long
\* private-use tag, and the empty string.
RegionParts ==
    {<<"U", "S">>, <<"G", "B">>, <<"k", "l", "i", "n", "g", "o", "n", "a", "a">>, <<>>}

RECURSIVE Join(_)
Join(parts) ==
    IF Len(parts) = 1 THEN parts[1]
    ELSE parts[1] \o <<Hyphen>> \o Join(Tail(parts))

\* The codes the match of LocaleCode::fallback produces.
TableValues == {<<r[1], r[2], Hyphen, r[3], r[4]>> : r \in FallbackRows}

\* Codes of at most MaxParts parts, and the values of the table.
LocaleCodes ==
    TableValues \cup
    UNION {{Join(<<l>> \o rest) : l \in LanguageParts, rest \in [1..k -> RegionParts]} :
            k \in 0..(MaxParts - 1)}

CodeInit ==
    /\ code \in LocaleCodes
    /\ first = None
    /\ second = None
    /\ OnlyCode

\* code.fallback()
Fallback ==
    /\ first = None
    /\ first' = Some(fallback(code))
    /\ UNCHANGED <<code, second>>
    /\ UNCHANGED notCode

\* code.fallback().and_then(|f| f.fallback()): the fallback of the fallback
FallbackAgain ==
    /\ IsSome(first)
    /\ IsSome(Unwrap(first))
    /\ second = None
    /\ second' = Some(fallback(Unwrap(Unwrap(first))))
    /\ UNCHANGED <<code, first>>
    /\ UNCHANGED notCode

SpecCode == CodeInit /\ [][Fallback \/ FallbackAgain]_vars

(***************************************************************************)
(* Claims about locale codes                                               *)
(***************************************************************************)
IsBareLanguage == Len(code) = 2 /\ \A i \in DOMAIN code : code[i] # Hyphen
InTable == \E r \in FallbackRows : code = <<r[1], r[2]>>
IsTableValue == \E r \in FallbackRows : code = <<r[1], r[2], Hyphen, r[3], r[4]>>
FirstFallback == Unwrap(first)

\* C10: on a bare two-letter code fallback returns the region-qualified code
\* of the table when the code is in the table ("en" gives "en-US") and
\* nothing when it is not ("xx"); on a value of the table ("en-US") it
\* returns nothing, so the fallback of a fallback is always nothing.
C10_Fallback ==
    /\ IsSome(first) =>
        /\ (IsBareLanguage /\ InTable) =>
            \E r \in FallbackRows :
                /\ code = <<r[1], r[2]>>
                /\ FirstFallback = Some(<<r[1], r[2], Hyphen, r[3], r[4]>>)
        /\ (IsBareLanguage /\ ~InTable) => FirstFallback = None
        /\ IsTableValue => FirstFallback = None
        /\ code = <<"e", "n">> => FirstFallback = Some(<<"e", "n", "-", "U", "S">>)
    /\ IsSome(second) => Unwrap(second) = None

\* "en" fell back to "en-US", and the fallback of that was taken.
C10_Witness ==
    /\ code = <<"e", "n">>
    /\ first = Some(Some(<<"e", "n", "-", "U", "S">>))
    /\ IsSome(second)

CodeParts == Split(code, Hyphen)
HasTwoLetterBase == Len(CodeParts[1]) = 2
IsRegionQualified == HasTwoLetterBase /\ Len(CodeParts) > 1
BaseInTable == \E r \in FallbackRows : CodeParts[1] = <<r[1], r[2]>>
TableValueOfBase ==
    LET r == CHOOSE r \in FallbackRows : CodeParts[1] = <<r[1], r[2]>>
    IN  <<r[1], r[2], Hyphen, r[3], r[4]>>

\* C11 as stated: fallback returns nothing for every region-qualified code
\* (a two-letter language, a hyphen, a region) and for every code whose first
\* part is not a two-letter language.
C11_RegionQualifiedIsNone ==
    IsSome(first) =>
        /\ IsRegionQualified => FirstFallback = None
        /\ ~HasTwoLetterBase => FirstFallback = None

\* C11 amended: fallback returns nothing for every code whose first part is
\* not a two-letter language; for a region-qualified code it returns nothing
\* only when the language is outside the table or the code is itself the
\* value of the table for its language, and that value otherwise.
C11_RegionFallsBackToTable ==
    IsSome(first) =>
        /\ ~HasTwoLetterBase => FirstFallback = None
        /\ IsRegionQualified =>
            FirstFallback =
                IF BaseInTable /\ code # TableValueOfBase
                THEN Some(TableValueOfBase) ELSE None

\* "en-GB" fell back to "en-US".
C11_Witness ==
    /\ code = <<"e", "n", "-", "G", "B">>
    /\ first = Some(Some(<<"e", "n", "-", "U", "S">>))

(***************************************************************************)
(* Ordinal terms: OrdinalLookup (lib.rs)                                   *)
(***************************************************************************)
\* The largest number asked for.
MaxNumber == 113
\* The longest list of ordinal terms that is not built around the four
\* class terms.
MaxOrdinalTerms == 2

\* OtherTerm::Ordinal, OtherTerm::OrdinalN(o), OtherTerm::LongOrdinal(o)
Ordinal == Term("Other", [ordinal |-> "Ordinal", n |-> 0])
OrdinalN(o) == Term("Other", [ordinal |-> "OrdinalN", n |-> o])
LongOrdinal(o) == Term("Other", [ordinal |-> "LongOrdinal", n |-> o])

OrdinalMatch == {"LastDigit", "LastTwoDigits", "WholeNumber"}
GrammarGender == {"Feminine", "Masculine"}

\* Which of the three texts of a term are written.
TextShapes == {"localization", "single", "multiple", "none"}

\* A LocalizedTerm for an ordinal; each text names the term and its slot.
OrdinalTerm(t, m, g, shape) ==
    [name |-> t, form |-> "Long",
     localization |-> IF shape = "localization" THEN Some(<<t, "localization">>) ELSE None,
     single |-> IF shape = "single" THEN Some(<<t, "single">>) ELSE None,
     multiple |-> IF shape \in {"single", "multiple"} THEN Some(<<t, "multiple">>) ELSE None,
     match_ |-> m, gender |-> g, gender_form |-> None]

\* LocalizedTerm::single
single(self) == Or(self.single, self.localization)

\* LocalizedTerm::multiple
multiple(self) == Or(self.multiple, self.localization)

\* The % of i32: the remainder has the sign of the dividend.
rem(a, b) == IF a >= 0 THEN a % b ELSE 0 - ((0 - a) % b)

\* i32::abs
abs(a) == IF a >= 0 THEN a ELSE 0 - a

\* OrdinalLookup::new
OrdinalLookup_new(ordinal_terms) ==
    LET defines_ordinal == \E i \in DOMAIN ordinal_terms : ordinal_terms[i].name = Ordinal
    IN  [terms |-> ordinal_terms,
         legacy_behavior |->
            IF ~defines_ordinal
            THEN \A n \in 1..4 :
                    \E i \in DOMAIN ordinal_terms : ordinal_terms[i].name = OrdinalN(n)
            ELSE FALSE]

\* A change_match in which every later numbered match replaces the best one.
change_match_last_wins(best_match, other_match, n, gender) ==
    IF IsNone(best_match) THEN Some(other_match)
    ELSE IF other_match.name.key.ordinal # "OrdinalN" THEN best_match
    ELSE Some(other_match)

\* The closure change_match of OrdinalLookup::lookup: the best match after
\* other_match was offered.
change_match(best_match, other_match, n, gender) ==
    IF IsNone(best_match) THEN Some(other_match)
    ELSE
        LET current == Unwrap(best_match)
            other_n == other_match.name.key.n
            curr_n == current.name.key.n
        IN  IF other_match.name.key.ordinal # "OrdinalN" THEN best_match
            ELSE IF current.name.key.ordinal # "OrdinalN" THEN Some(other_match)
            ELSE IF other_n >= 10 /\ curr_n < 10 THEN Some(other_match)
            ELSE IF other_n < 10 /\ curr_n >= 10 THEN Some(current)
            ELSE IF gender = current.gender /\ gender # other_match.gender THEN Some(current)
            ELSE IF gender # current.gender /\ gender = other_match.gender
                 THEN Some(other_match)
            ELSE IF abs(n - other_n) <= abs(n - curr_n) THEN Some(other_match)
            ELSE Some(current)

\* A class that sends every number ending in 11, 12 or 13 to class 4.
legacy_class_by_two_digits(n) ==
    IF rem(n, 100) \in 11..13 THEN 4
    ELSE IF rem(n, 10) \in 1..3 THEN rem(n, 10)
    ELSE 4

\* The class of a number in legacy mode.
legacy_class(n) ==
    IF n \in 11..13 THEN 4
    ELSE IF rem(n, 10) \in 1..3 THEN rem(n, 10)
    ELSE 4

\* The value of hit in the loop of OrdinalLookup::lookup.
hit(self, term, n) ==
    LET term_name == term.name.key
        o == term_name.n
    IN  IF term_name.ordinal = "Ordinal" THEN TRUE
        ELSE IF term_name.ordinal = "OrdinalN" /\ self.legacy_behavior
             THEN o = legacy_class(n)
        ELSE IF term_name.ordinal = "OrdinalN" /\ o \in 0..9 THEN
            IF term.match_ \in {Some("LastDigit"), None} THEN rem(n, 10) = o
            ELSE IF term.match_ = Some("LastTwoDigits") THEN rem(n, 100) = o
            ELSE n = o
        ELSE IF term_name.ordinal = "OrdinalN" /\ o \in 10..99 THEN
            IF term.match_ \in {Some("LastTwoDigits"), None} THEN rem(n, 100) = o
            ELSE IF term.match_ = Some("WholeNumber") THEN n = o
            ELSE FALSE
        ELSE FALSE

\* The loop of OrdinalLookup::lookup from term i on: the best match at its end.
RECURSIVE lookup_loop(_, _, _, _, _)
lookup_loop(self, i, best_match, n, gender) ==
    IF i > Len(self.terms) THEN best_match
    ELSE lookup_loop(self, i + 1,
                     IF hit(self, self.terms[i], n)
                     THEN change_match(best_match, self.terms[i], n, gender)
                     ELSE best_match,
                     n, gender)

\* best_match at the end of OrdinalLookup::lookup
lookup_best(self, n, gender) == lookup_loop(self, 1, None, n, gender)

\* t.single().or_else(|| t.multiple()) on an optional term
text_of(found_term) ==
    IF IsNone(found_term) THEN None
    ELSE Or(single(Unwrap(found_term)), multiple(Unwrap(found_term)))

\* OrdinalLookup::lookup
lookup(self, n, gender) == text_of(lookup_best(self, n, gender))

\* The closure of find in OrdinalLookup::lookup_long.
long_hit(t, n) ==
    IF t.name.key.ordinal # "LongOrdinal" THEN FALSE
    ELSE IF n > 0 /\ n <= 10 THEN n = t.name.key.n
    ELSE IF t.match_ \in {Some("LastTwoDigits"), None} THEN rem(n, 100) = t.name.key.n
    ELSE IF t.match_ = Some("WholeNumber") THEN n = t.name.key.n
    ELSE FALSE

\* A find that accepts the numbered short term as well.
lookup_long_find_or_short(self, n) ==
    LET hits == {i \in DOMAIN self.terms :
                    \/ long_hit(self.terms[i], n)
                    \/ self.terms[i].name = OrdinalN(n)}
    IN  IF hits = {} THEN None
        ELSE Some(self.terms[CHOOSE i \in hits : \A j \in hits : i <= j])

\* The term find returns in OrdinalLookup::lookup_long.
lookup_long_find(self, n) ==
    LET hits == {i \in DOMAIN self.terms : long_hit(self.terms[i], n)}
    IN  IF hits = {} THEN None
        ELSE Some(self.terms[CHOOSE i \in hits : \A j \in hits : i <= j])

\* OrdinalLookup::lookup_long
lookup_long(self, n) == text_of(lookup_long_find(self, n))

\* The orders in which a locale lists the four class terms.
ClassOrders ==
    {o \in [1..4 -> 1..4] : \A i, j \in 1..4 : i # j => o[i] # o[j]}

\* Locales that define the four class terms only: in any order, with one
\* match rule and one shape of text.
LegacyTermLists ==
    {[i \in 1..4 |-> OrdinalTerm(OrdinalN(o[i]), m, None, shape)] :
        o \in ClassOrders, m \in OptionOf(OrdinalMatch), shape \in {"localization", "single"}}

\* The long-ordinal terms of the modelled locales, with a numbered short
\* term and the generic term beside them.
LongTerms ==
    {OrdinalTerm(LongOrdinal(o), m, None, "localization") :
        o \in {1, 11}, m \in OptionOf(OrdinalMatch)}
        \cup {OrdinalTerm(OrdinalN(1), None, None, "localization"),
              OrdinalTerm(Ordinal, None, None, "localization")}

LongTermLists == SeqUpTo(LongTerms, MaxOrdinalTerms)

\* The lists with one term, in every shape of text.
ShapedTermLists ==
    {<<OrdinalTerm(t, None, None, shape)>> :
        t \in {Ordinal, OrdinalN(1), LongOrdinal(1)}, shape \in TextShapes}

\* The four class terms in their order, with no match rule.
ClassTerms == [c \in 1..4 |-> OrdinalTerm(OrdinalN(c), None, None, "localization")]

\* What a locale defines besides the class terms: the generic term, or a term
\* for 11 under some match rule.
FurtherTerms ==
    {OrdinalTerm(Ordinal, None, None, "localization")}
        \cup {OrdinalTerm(OrdinalN(11), m, None, "localization") : m \in OptionOf(OrdinalMatch)}

\* Locales near the legacy ones: the class terms with a further term before
\* or after them, and the class terms but one.
NearLegacyTermLists ==
    {ClassTerms \o <<t>> : t \in FurtherTerms}
        \cup {<<t>> \o ClassTerms : t \in FurtherTerms}
        \cup {SelectSeq(ClassTerms, LAMBDA t : t.name # OrdinalN(c)) : c \in 1..4}

\* Numbered terms that can match the same number, with their gender, and
\* the generic term.
ScoredTerms ==
    {OrdinalTerm(OrdinalN(1), m, g, "localization") :
        m \in {None, Some("WholeNumber")}, g \in OptionOf(GrammarGender)}
        \cup {OrdinalTerm(OrdinalN(11), None, g, "localization") : g \in {None, Some("Feminine")}}
        \cup {OrdinalTerm(OrdinalN(1), Some("LastTwoDigits"), None, "localization"),
              OrdinalTerm(Ordinal, None, None, "localization")}

ScoredTermLists == SeqUpTo(ScoredTerms, MaxOrdinalTerms)

OrdinalTermLists ==
    LegacyTermLists \cup LongTermLists \cup ShapedTermLists
        \cup NearLegacyTermLists \cup ScoredTermLists

\* The numbers asked for: i32 values around zero up to MaxNumber.
Numbers == {0 - 11, 0 - 1} \cup 0..MaxNumber

OrdinalInit ==
    /\ \E terms \in OrdinalTermLists : ordinals = Some(OrdinalLookup_new(terms))
    /\ numbered = None
    /\ short_ord = None
    /\ long_ord = None
    /\ OnlyOrdinal

\* ordinals.lookup(n, gender)
Lookup ==
    /\ numbered = None
    /\ \E n \in Numbers, gender \in OptionOf(GrammarGender) :
        /\ numbered' = Some([n |-> n, gender |-> gender])
        /\ short_ord' = Some([term |-> lookup_best(Unwrap(ordinals), n, gender),
                              text |-> lookup(Unwrap(ordinals), n, gender)])
    /\ UNCHANGED <<ordinals, long_ord>>
    /\ UNCHANGED notOrdinal

\* ordinals.lookup_long(n)
LookupLong ==
    /\ numbered = None
    /\ \E n \in Numbers :
        /\ numbered' = Some([n |-> n, gender |-> None])
        /\ long_ord' = Some([term |-> lookup_long_find(Unwrap(ordinals), n),
                             text |-> lookup_long(Unwrap(ordinals), n)])
    /\ UNCHANGED <<ordinals, short_ord>>
    /\ UNCHANGED notOrdinal

SpecOrdinal == OrdinalInit /\ [][Lookup \/ LookupLong]_vars

(***************************************************************************)
(* Claims about ordinal terms                                              *)
(***************************************************************************)
OrdinalTerms == Unwrap(ordinals).terms
AskedNumber == Unwrap(numbered).n
AskedGender == Unwrap(numbered).gender
ShortTerm == Unwrap(short_ord).term
LongTerm == Unwrap(long_ord).term

\* The locale defines the four class terms and nothing else.
OnlyClassTerms ==
    /\ Len(OrdinalTerms) = 4
    /\ {OrdinalTerms[i].name : i \in 1..4} = {OrdinalN(c) : c \in 1..4}

ClassTerm(c) == OrdinalTerms[CHOOSE i \in 1..4 : OrdinalTerms[i].name = OrdinalN(c)]
LastDigit == AskedNumber % 10

\* C12: with only the four class terms defined, lookup(n) for n >= 0 selects
\* the class-4 term when n is 11, 12 or 13 or ends in 0 or 4..9, and the
\* class-1, class-2 or class-3 term when n ends in 1, 2 or 3; so 1, 21 and
\* 101 select class 1.
C12_LegacyClass ==
    (IsSome(short_ord) /\ OnlyClassTerms /\ AskedNumber >= 0) =>
        /\ Unwrap(ordinals).legacy_behavior
        /\ (AskedNumber \in {11, 12, 13} \/ LastDigit \in {0, 4, 5, 6, 7, 8, 9})
            => ShortTerm = Some(ClassTerm(4))
        /\ (AskedNumber \notin {11, 12, 13} /\ LastDigit \in {1, 2, 3})
            => ShortTerm = Some(ClassTerm(LastDigit))
        /\ AskedNumber \in {1, 21, 101} => ShortTerm = Some(ClassTerm(1))
        /\ Unwrap(short_ord).text = Or(Unwrap(ShortTerm).single, Unwrap(ShortTerm).localization)

\* 111 was looked up among the four class terms and the class-1 term chosen.
C12_Witness ==
    /\ IsSome(short_ord)
    /\ OnlyClassTerms
    /\ AskedNumber = 111
    /\ ShortTerm = Some(ClassTerm(1))
    /\ OrdinalTerms[1].name = OrdinalN(4)

IsLongOrdinalTerm(t) == t.name.key.ordinal = "LongOrdinal"
LongOrdinalsOf(n) == {i \in DOMAIN OrdinalTerms : OrdinalTerms[i].name = LongOrdinal(n)}

\* C13: lookup_long returns the text of a long-ordinal term or nothing, never
\* the text of a numbered short term or of the generic term; for n in 1..=10
\* the term it matches is the first long-ordinal term whose value is n,
\* whatever match rule the term declares, and nothing when there is none.
C13_LongOnly ==
    IsSome(long_ord) =>
        /\ IsSome(LongTerm) =>
            /\ IsLongOrdinalTerm(Unwrap(LongTerm))
            /\ Unwrap(long_ord).text \in
                {None, Unwrap(LongTerm).localization, Unwrap(LongTerm).single,
                 Unwrap(LongTerm).multiple}
        /\ IsNone(LongTerm) => Unwrap(long_ord).text = None
        /\ AskedNumber \in 1..10 =>
            /\ LongOrdinalsOf(AskedNumber) = {} => LongTerm = None
            /\ LongOrdinalsOf(AskedNumber) # {} =>
                \E i \in LongOrdinalsOf(AskedNumber) :
                    /\ \A j \in LongOrdinalsOf(AskedNumber) : i <= j
                    /\ LongTerm = Some(OrdinalTerms[i])

\* 1 was looked up where the numbered short term comes first and the long
\* term for 1 declares the last-digit rule: the long term was found.
C13_Witness ==
    /\ IsSome(long_ord)
    /\ AskedNumber = 1
    /\ Len(OrdinalTerms) = 2
    /\ OrdinalTerms[1].name = OrdinalN(1)
    /\ OrdinalTerms[2].name = LongOrdinal(1)
    /\ OrdinalTerms[2].match_ = Some("LastDigit")
    /\ LongTerm = Some(OrdinalTerms[2])
    /\ IsSome(Unwrap(long_ord).text)

(***************************************************************************)
(* Dates: FixedDateRange, VecDateRange and parse_date (json.rs)            *)
(***************************************************************************)
\* The largest month and day number written in a date string.
MaxWritten == 33
\* The most endpoints in a list-form range.
MaxEndpoints == 3

\* A call that did not return: the thread panicked.
Panic == [ok |-> FALSE, val |-> "panic"]
\* The error value () of from_str and try_from.
Unit == "()"

DigitChars == <<"0", "1", "2", "3", "4", "5", "6", "7", "8", "9">>

\* char::is_ascii_digit
is_ascii_digit(c) == \E i \in DOMAIN DigitChars : DigitChars[i] = c
DigitValue(c) == (CHOOSE i \in DOMAIN DigitChars : DigitChars[i] = c) - 1

\* The decimal digits of a natural number (Display for integers).
RECURSIVE DigitsOf(_)
DigitsOf(n) ==
    IF n < 10 THEN <<DigitChars[n + 1]>>
    ELSE DigitsOf(n \div 10) \o <<DigitChars[(n % 10) + 1]>>

\* The value of a run of digits.
RECURSIVE ValueOf(_)
ValueOf(run) ==
    IF run = <<>> THEN 0
    ELSE 10 * ValueOf(SubSeq(run, 1, Len(run) - 1)) + DigitValue(run[Len(run)])

i16_MAX == 32767
i16_MIN == 0 - 32768
u8_MAX == 255

\* str::parse::<i16> and str::parse::<u8> on a run of digits.
parse_int(run, max) ==
    IF run = <<>> THEN None
    ELSE IF ValueOf(run) > max THEN None
    ELSE Some(ValueOf(run))

\* Scanner::eat_while(char::is_ascii_digit): the cursor after the run of
\* digits that starts at cursor.
eat_while_digit(text, cursor) ==
    IF \E j \in cursor..Len(text) : ~is_ascii_digit(text[j])
    THEN CHOOSE j \in cursor..Len(text) :
            /\ ~is_ascii_digit(text[j])
            /\ \A k \in cursor..(j - 1) : is_ascii_digit(text[k])
    ELSE Len(text) + 1

\* Scanner::peek: the character at the cursor, if any.
peek(text, cursor) == IF cursor <= Len(text) THEN Some(text[cursor]) ELSE None

\* The u8 subtraction x - 1 of parse_date: [panic, value]. At x = 0 a build
\* with overflow checks panics and one without wraps to 255.
u8_minus_one(x, checks) ==
    IF x = 0 THEN [panic |-> checks, value |-> u8_MAX]
    ELSE [panic |-> FALSE, value |-> x - 1]

FixedDate(year, month, day) == [year |-> year, month |-> month, day |-> day]

\* What parse_date does from the cursor on: the returned Option<FixedDate>
\* and the cursor it leaves, or a panic.
Parsed(date, cursor) == [panic |-> FALSE, date |-> date, cursor |-> cursor]
ParsePanic == [panic |-> TRUE, date |-> None, cursor |-> 0]

\* parse_date
parse_date(text, start, checks) ==
    LET afterYear == eat_while_digit(text, start)
        year == parse_int(SubSeq(text, start, afterYear - 1), i16_MAX)
    IN
    IF IsNone(year) THEN Parsed(None, afterYear)
    ELSE IF peek(text, afterYear) # Some("-")
         THEN Parsed(Some(FixedDate(Unwrap(year), None, None)), afterYear)
    ELSE
    LET afterMonth == eat_while_digit(text, afterYear + 1)
        monthRead == parse_int(SubSeq(text, afterYear + 1, afterMonth - 1), u8_MAX)
    IN
    IF IsNone(monthRead) THEN Parsed(None, afterMonth)
    ELSE
    LET month == u8_minus_one(Unwrap(monthRead), checks) IN
    IF month.panic THEN ParsePanic
    ELSE IF month.value > 11 THEN Parsed(None, afterMonth)
    ELSE IF peek(text, afterMonth) # Some("-")
         THEN Parsed(Some(FixedDate(Unwrap(year), Some(month.value), None)), afterMonth)
    ELSE
    LET afterDay == eat_while_digit(text, afterMonth + 1)
        dayRead == parse_int(SubSeq(text, afterMonth + 1, afterDay - 1), u8_MAX)
    IN
    IF IsNone(dayRead) THEN Parsed(None, afterDay)
    ELSE
    LET day == u8_minus_one(Unwrap(dayRead), checks) IN
    IF day.panic THEN ParsePanic
    ELSE IF day.value > 31 THEN Parsed(None, afterDay)
    ELSE Parsed(Some(FixedDate(Unwrap(year), Some(month.value), Some(day.value))), afterDay)

FixedDateRange(start, end) == [start |-> start, end |-> end]

\* impl FromStr for FixedDateRange
from_str(text, checks) ==
    LET start == parse_date(text, 1, checks) IN
    IF start.panic THEN Panic
    ELSE IF IsNone(start.date) THEN Err(Unit)
    ELSE IF peek(text, start.cursor) = Some("/") THEN
        LET end == parse_date(text, start.cursor + 1, checks) IN
        IF end.panic THEN Panic
        ELSE IF IsNone(end.date) THEN Err(Unit)
        ELSE Ok(FixedDateRange(Unwrap(start.date), end.date))
    ELSE Ok(FixedDateRange(Unwrap(start.date), None))

\* impl From<FixedDate> for VecDate
VecDate_from(value) ==
    <<value.year>> \o
    (IF IsSome(value.month)
     THEN <<Unwrap(value.month)>> \o
          (IF IsSome(value.day) THEN <<Unwrap(value.day)>> ELSE <<>>)
     ELSE <<>>)

\* impl From<FixedDateRange> for VecDateRange
VecDateRange_from(value) ==
    <<VecDate_from(value.start)>> \o
    (IF IsSome(value.end) THEN <<VecDate_from(Unwrap(value.end))>> ELSE <<>>)

\* The cast `as u8` of an i16.
as_u8(x) == ((x % 256) + 256) % 256

\* The i16 expression (v - 1) as u8 of From<VecDate>: [panic, value]. At
\* v = i16::MIN a build with overflow checks panics and one without wraps.
i16_minus_one_as_u8(v, checks) ==
    IF v = i16_MIN THEN [panic |-> checks, value |-> as_u8(i16_MAX)]
    ELSE [panic |-> FALSE, value |-> as_u8(v - 1)]

\* impl From<VecDate> for FixedDate: [panic, date]. The unwrap of the year
\* panics on a date without components.
FixedDate_from(value, checks) ==
    IF Len(value) = 0 THEN [panic |-> TRUE, date |-> None]
    ELSE
    LET month == IF Len(value) >= 2 THEN Some(i16_minus_one_as_u8(value[2], checks)) ELSE None
        day == IF Len(value) >= 3 THEN Some(i16_minus_one_as_u8(value[3], checks)) ELSE None
    IN
    IF (IsSome(month) /\ Unwrap(month).panic) \/ (IsSome(day) /\ Unwrap(day).panic)
    THEN [panic |-> TRUE, date |-> None]
    ELSE [panic |-> FALSE,
          date |-> Some(FixedDate(value[1],
                                  IF IsSome(month) THEN Some(Unwrap(month).value) ELSE None,
                                  IF IsSome(day) THEN Some(Unwrap(day).value) ELSE None))]

\* impl TryFrom<VecDateRange> for FixedDateRange
range_try_from(value, checks) ==
    IF Len(value) = 0 THEN Err(Unit)
    ELSE
    LET start == FixedDate_from(value[1], checks) IN
    IF start.panic THEN Panic
    ELSE
    LET end == IF Len(value) >= 2 THEN Some(FixedDate_from(value[2], checks)) ELSE None IN
    IF IsSome(end) /\ Unwrap(end).panic THEN Panic
    ELSE IF Len(value) >= 3 THEN Err(Unit)
    ELSE Ok(FixedDateRange(Unwrap(start.date),
                           IF IsSome(end) THEN Unwrap(end).date ELSE None))

\* The years written in the modelled strings: none, small ones, the largest
\* i16 and the number after it.
WrittenYears == {<<>>} \cup {DigitsOf(y) : y \in {0, 2020, i16_MAX, i16_MAX + 1}}

\* The months and days written: none, 0..MaxWritten, one with a leading
\* zero, the largest u8, the number after it, and a letter.
WrittenNumbers ==
    {<<>>, <<"0", "5">>, <<"x">>}
        \cup {DigitsOf(n) : n \in 0..MaxWritten}
        \cup {DigitsOf(u8_MAX), DigitsOf(u8_MAX + 1)}

TheYear == DigitsOf(2020)

\* Strings of one date: a year, a year and a month, or all three.
DateTexts ==
    WrittenYears
        \cup {TheYear \o <<"-">> \o m : m \in WrittenNumbers}
        \cup {TheYear \o <<"-">> \o m \o <<"-">> \o d :
                m \in WrittenNumbers, d \in WrittenNumbers}

\* The dates written at the start of a range, after its '/', or before
\* further characters.
FewDateTexts ==
    {TheYear,
     TheYear \o <<"-", "5">>,
     TheYear \o <<"-", "1", "-", "1">>,
     TheYear \o <<"-", "1", "2", "-", "3", "1">>,
     TheYear \o <<"-", "0">>,
     TheYear \o <<"-", "1", "3">>,
     <<>>}

\* What is left over after a date.
Leftovers == {<<"x">>, <<" ">>, <<"-">>, <<"/">>, <<"/", "/">>, <<"-", "-", "1">>}

RangeTexts ==
    DateTexts
        \cup {d \o <<"/">> \o e : d \in FewDateTexts, e \in FewDateTexts}
        \cup {d \o rest : d \in FewDateTexts, rest \in Leftovers}
        \cup {d \o <<"/">> \o e \o rest :
                d \in {TheYear}, e \in FewDateTexts, rest \in Leftovers}

DateInit ==
    /\ overflow_checks \in {Some(TRUE), Some(FALSE)}
    /\ date_text \in {Some(t) : t \in RangeTexts}
    /\ parsed = None
    /\ listed = None
    /\ relisted = None
    /\ vec_range = None
    /\ converted = None
    /\ OnlyDate

\* date_text.parse::<FixedDateRange>()
ParseRange ==
    /\ parsed = None
    /\ parsed' = Some(from_str(Unwrap(date_text), Unwrap(overflow_checks)))
    /\ UNCHANGED <<overflow_checks, date_text, listed, relisted, vec_range, converted>>
    /\ UNCHANGED notDate

\* VecDateRange::from(range) on the parsed range
ToList ==
    /\ IsSome(parsed)
    /\ Unwrap(parsed).ok
    /\ listed = None
    /\ listed' = Some(VecDateRange_from(Unwrap(parsed).val))
    /\ UNCHANGED <<overflow_checks, date_text, parsed, relisted, vec_range, converted>>
    /\ UNCHANGED notDate

\* FixedDateRange::try_from(list) on the list written by ToList
FromList ==
    /\ IsSome(listed)
    /\ relisted = None
    /\ relisted' = Some(range_try_from(Unwrap(listed), Unwrap(overflow_checks)))
    /\ UNCHANGED <<overflow_checks, date_text, parsed, listed, vec_range, converted>>
    /\ UNCHANGED notDate

SpecDate == DateInit /\ [][ParseRange \/ ToList \/ FromList]_vars

\* The endpoints of the modelled lists: no component, a year, a year with a
\* month, a full date, a date with a fourth component, a month of zero and
\* the smallest i16.
VecDates ==
    {<<>>, <<2020>>, <<2020, 5>>, <<2020, 5, 17>>, <<2020, 5, 17, 3>>,
     <<2020, 0>>, <<2020, i16_MIN>>}

VecDateRanges == SeqUpTo(VecDates, MaxEndpoints)

VecDateInit ==
    /\ overflow_checks \in {Some(TRUE), Some(FALSE)}
    /\ vec_range \in {Some(v) : v \in VecDateRanges}
    /\ date_text = None
    /\ parsed = None
    /\ listed = None
    /\ relisted = None
    /\ converted = None
    /\ OnlyDate

\* FixedDateRange::try_from(vec_range)
ConvertList ==
    /\ IsSome(vec_range)
    /\ converted = None
    /\ converted' = Some(range_try_from(Unwrap(vec_range), Unwrap(overflow_checks)))
    /\ UNCHANGED <<overflow_checks, date_text, parsed, listed, relisted, vec_range>>
    /\ UNCHANGED notDate

SpecVecDate == VecDateInit /\ [][ConvertList]_vars

(***************************************************************************)
(* Claims about dates                                                      *)
(***************************************************************************)
\* The number a written month or day stands for, if it is one.
Written(w) ==
    IF \A i \in DOMAIN w : is_ascii_digit(w[i]) THEN parse_int(w, u8_MAX) ELSE None
StoresMonth(m) == IsSome(Written(m)) /\ Unwrap(Written(m)) - 1 \in 0..11
StoresDay(d) == IsSome(Written(d)) /\ Unwrap(Written(d)) - 1 \in 0..31
Stored(w) == Some(Unwrap(Written(w)) - 1)
OneDate(date) == Ok(FixedDateRange(date, None))

\* C14: parsing stores month and day as the written value minus one and
\* succeeds only when the stored month is in 0..=11 and the stored day in
\* 0..=31; for every other written month or day, a written 0 included, it
\* returns the error value and does not panic.
C14_MonthDayRange ==
    IsSome(parsed) =>
        \A m \in WrittenNumbers :
            /\ date_text = Some(TheYear \o <<"-">> \o m) =>
                Unwrap(parsed) =
                    IF StoresMonth(m) THEN OneDate(FixedDate(2020, Stored(m), None))
                    ELSE Err(Unit)
            /\ \A d \in WrittenNumbers :
                date_text = Some(TheYear \o <<"-">> \o m \o <<"-">> \o d) =>
                    Unwrap(parsed) =
                        IF StoresMonth(m) /\ StoresDay(d)
                        THEN OneDate(FixedDate(2020, Stored(m), Stored(d)))
                        ELSE Err(Unit)

\* C15: a parsed range converted to the list form and back is the parsed
\* range again.
C15_RoundTrip ==
    IsSome(relisted) => Unwrap(relisted) = Ok(Unwrap(parsed).val)

HasYear(endpoint) == Len(endpoint) >= 1

\* C16: converting a list to the fixed form returns the error value, without
\* panicking, for a list of no endpoints and for a list of more than two,
\* whatever the endpoints hold; it succeeds for a list of one or two
\* endpoints that each have a year.
C16_EndpointCount ==
    IsSome(converted) =>
        LET list == Unwrap(vec_range) IN
        /\ (Len(list) = 0 \/ Len(list) > 2) => Unwrap(converted) = Err(Unit)
        /\ (Len(list) \in {1, 2} /\ \A i \in DOMAIN list : HasYear(list[i]))
            => Unwrap(converted).ok

(***************************************************************************)
(* Date parts: DateStrongAnyForm::for_name (lib.rs)                        *)
(***************************************************************************)
\* The most date parts of a Date element.
MaxDateParts == 2

DatePartName == {"Day", "Month", "Year"}
DateAnyForm == {"Numeric", "NumericLeadingZeros", "Ordinal", "Long", "Short"}

\* DateDayForm::default, DateMonthForm::default, LongShortForm::default
DateDayForm_default == "Numeric"
DateMonthForm_default == "Long"
LongShortForm_default == "Long"

\* A form for a day that keeps whatever was requested.
form_for_day_as_requested(self) == self

\* DateAnyForm::form_for_day
form_for_day(self) ==
    IF self = "NumericLeadingZeros" THEN "NumericLeadingZeros"
    ELSE IF self = "Ordinal" THEN "Ordinal"
    ELSE DateDayForm_default

\* DateAnyForm::form_for_month
form_for_month(self) ==
    IF self = "Short" THEN "Short"
    ELSE IF self = "Numeric" THEN "Numeric"
    ELSE IF self = "NumericLeadingZeros" THEN "NumericLeadingZeros"
    ELSE DateMonthForm_default

\* DateAnyForm::form_for_year
form_for_year(self) ==
    IF self = "Short" THEN "Short" ELSE LongShortForm_default

\* A variant of DateStrongAnyForm with the form it wraps.
DateStrongAnyForm(variant, form) == [variant |-> variant, form |-> form]

\* DateStrongAnyForm::for_name
for_name(name_, form) ==
    IF name_ = "Day" THEN
        DateStrongAnyForm("Day",
            IF IsSome(form) THEN form_for_day(Unwrap(form)) ELSE DateDayForm_default)
    ELSE IF name_ = "Month" THEN
        DateStrongAnyForm("Month",
            IF IsSome(form) THEN form_for_month(Unwrap(form)) ELSE DateMonthForm_default)
    ELSE
        DateStrongAnyForm("Year",
            IF IsSome(form) THEN form_for_year(Unwrap(form)) ELSE LongShortForm_default)

\* A DatePart: its name and its form attribute.
DatePart == [name : DatePartName, form : OptionOf(DateAnyForm)]

\* DatePart::form
part_form(self) == for_name(self.name, self.form)

PartInit ==
    /\ date_part \in {Some(l) : l \in SeqUpTo(DatePart, MaxDateParts)}
    /\ part_forms = <<>>
    /\ OnlyPart

\* part.form() for the next part of the Date element
PartForm ==
    /\ IsSome(date_part)
    /\ Len(part_forms) < Len(Unwrap(date_part))
    /\ part_forms' = Append(part_forms, part_form(Unwrap(date_part)[Len(part_forms) + 1]))
    /\ UNCHANGED date_part
    /\ UNCHANGED notPart

SpecPart == PartInit /\ [][PartForm]_vars

(***************************************************************************)
(* Claims about date parts                                                 *)
(***************************************************************************)
\* The forms that apply to a component, and the component's default.
Applicable(c) ==
    IF c = "Day" THEN {"Numeric", "NumericLeadingZeros", "Ordinal"}
    ELSE IF c = "Month" THEN {"Long", "Short", "Numeric", "NumericLeadingZeros"}
    ELSE {"Long", "Short"}
DefaultOf(c) == IF c = "Day" THEN "Numeric" ELSE "Long"

\* C17: for_name returns the variant of the given component; it keeps the
\* requested form when that form applies to the component and otherwise, or
\* when no form is requested, returns the component's default (day numeric,
\* month long, year long).
C17_ForName ==
    \A i \in DOMAIN part_forms :
        LET part == Unwrap(date_part)[i] IN
        /\ part_forms[i].variant = part.name
        /\ part_forms[i].form =
             IF IsSome(part.form) /\ Unwrap(part.form) \in Applicable(part.name)
             THEN Unwrap(part.form)
             ELSE DefaultOf(part.name)

\* A day that asks for the long form got the numeric one, and a month after
\* it kept its short form.
C17_Witness ==
    /\ Len(part_forms) = 2
    /\ Unwrap(date_part)[1] = [name |-> "Day", form |-> Some("Long")]
    /\ part_forms[1] = DateStrongAnyForm("Day", "Numeric")
    /\ Unwrap(date_part)[2] = [name |-> "Month", form |-> Some("Short")]
    /\ part_forms[2] = DateStrongAnyForm("Month", "Short")

(***************************************************************************)
(* Page ranges: PageRangeFormat::format (lib.rs)                           *)
(***************************************************************************)
\* Every page from 0 to MaxPage is a bound of a modelled range.
MaxPage == 112
\* So is every page from -MaxNegativePage to -1.
MaxNegativePage == 3

PageRangeFormat == {"Chicago15", "Chicago16", "Expanded", "Minimal", "MinimalTwo"}

\* The default separator, an en-dash, as one character.
EnDash == "en-dash"

\* Display for i32: a minus sign for a negative number, then its digits.
Display(n) == IF n < 0 THEN <<"-">> \o DigitsOf(0 - n) ELSE DigitsOf(n)

\* 10^e
RECURSIVE pow10(_)
pow10(e) == IF e = 0 THEN 1 ELSE 10 * pow10(e - 1)

\* (num as f64).log10().floor() as u32: the logarithm of zero is minus
\* infinity and that of a negative number is NaN, and both cast to 0.
RECURSIVE log10_floor(_)
log10_floor(num) == IF num < 10 THEN 0 ELSE 1 + log10_floor(num \div 10)

\* A power that is 1 for every positive number.
closest_power_one(num) == IF num <= 0 THEN 0 ELSE 1

\* closest_smaller_power_of_10: 10^floor(log10(num)) as i32, which is 0 when
\* num is not positive (the debug assertions then fail).
closest_smaller_power_of_10(num) ==
    IF num <= 0 THEN 0 ELSE pow10(log10_floor(num))

\* An expand that replaces the last digit only.
expand_last_digit(a, b) ==
    IF closest_smaller_power_of_10(b) = 0 THEN [panic |-> TRUE, value |-> 0]
    ELSE [panic |-> FALSE, value |-> (a - rem(a, 10)) + rem(b, 10)]

\* expand: [panic, value]. A mask of zero panics, at the debug assertion or
\* at the remainder by zero.
expand(a, b) ==
    LET mask == closest_smaller_power_of_10(b) * 10 IN
    IF mask = 0 THEN [panic |-> TRUE, value |-> 0]
    ELSE [panic |-> FALSE, value |-> (a - rem(a, mask)) + rem(b, mask)]

\* A loop that always runs down to the minimum base.
changed_base_to_min(a, b, min, base) == IF base > min THEN min ELSE base

\* The loop of changed_part: the base it stops at.
RECURSIVE changed_base(_, _, _, _)
changed_base(a, b, min, base) ==
    IF (a \div pow10(base)) = (b \div pow10(base)) /\ base > min
    THEN changed_base(a, b, min, base - 1)
    ELSE base

\* A changed_part that always stops at the minimum place.
changed_part_lowest(a, b, min) == b % pow10(min + 1)

\* changed_part, on bounds that are not negative
changed_part(a, b, min) ==
    LET base == changed_base(a, b, min, log10_floor(IF a > b THEN a ELSE b))
    IN  b % pow10(base + 1)

\* The number format writes after the separator.
end_part(self, start, range_end, end) ==
    IF start < 0 \/ range_end < 0 THEN end
    ELSE IF self = "Expanded" THEN end
    ELSE IF self \in {"Chicago15", "Chicago16"} /\ (start < 100 \/ start % 100 = 0) THEN end
    ELSE IF self = "Minimal" THEN changed_part(start, end, 0)
    ELSE IF self = "MinimalTwo" /\ end < 10 THEN changed_part(start, end, 1)
    ELSE IF self = "Chicago15" /\ start > 100 /\ (start % 100) \in 1..9
         THEN changed_part(start, end, 0)
    ELSE IF self = "Chicago15" /\ closest_smaller_power_of_10(start) = 1000 THEN
        LET changed == changed_part(start, end, 1) IN
        IF closest_smaller_power_of_10(changed) = 100 THEN end ELSE changed
    ELSE changed_part(start, end, 1)

\* PageRangeFormat::format: what is in buf when it returns, or when it panics
format(self, start, range_end, separator) ==
    LET sep == IF IsSome(separator) THEN Unwrap(separator) ELSE <<EnDash>>
        head == Display(start) \o sep
        end == IF range_end >= start THEN [panic |-> FALSE, value |-> range_end]
               ELSE expand(start, range_end)
    IN  IF end.panic THEN [panic |-> TRUE, buf |-> head]
        ELSE [panic |-> FALSE,
              buf |-> head \o Display(end_part(self, start, range_end, end.value))]

\* The cases of the test page_range: format, start, end and the string
\* expected.
ReferenceTable ==
    {<<"Chicago16", 1, 8, <<"1", EnDash, "8">>>>,
     <<"Chicago15", 3, 10, <<"3", EnDash, "1", "0">>>>,
     <<"Chicago15", 71, 72, <<"7", "1", EnDash, "7", "2">>>>,
     <<"Chicago15", 100, 4, <<"1", "0", "0", EnDash, "1", "0", "4">>>>,
     <<"Chicago15", 600, 613, <<"6", "0", "0", EnDash, "6", "1", "3">>>>,
     <<"Chicago15", 1100, 1123, <<"1", "1", "0", "0", EnDash, "1", "1", "2", "3">>>>,
     <<"Chicago15", 107, 108, <<"1", "0", "7", EnDash, "8">>>>,
     <<"Chicago15", 505, 517, <<"5", "0", "5", EnDash, "1", "7">>>>,
     <<"Chicago15", 1002, 1006, <<"1", "0", "0", "2", EnDash, "6">>>>,
     <<"Chicago15", 321, 325, <<"3", "2", "1", EnDash, "2", "5">>>>,
     <<"Chicago15", 415, 532, <<"4", "1", "5", EnDash, "5", "3", "2">>>>,
     <<"Chicago15", 11564, 11568, <<"1", "1", "5", "6", "4", EnDash, "6", "8">>>>,
     <<"Chicago15", 13792, 13803, <<"1", "3", "7", "9", "2", EnDash, "8", "0", "3">>>>,
     <<"Chicago15", 1496, 1504, <<"1", "4", "9", "6", EnDash, "1", "5", "0", "4">>>>,
     <<"Chicago15", 2787, 2816, <<"2", "7", "8", "7", EnDash, "2", "8", "1", "6">>>>,
     <<"Chicago16", 3, 10, <<"3", EnDash, "1", "0">>>>,
     <<"Chicago16", 71, 72, <<"7", "1", EnDash, "7", "2">>>>,
     <<"Chicago16", 92, 113, <<"9", "2", EnDash, "1", "1", "3">>>>,
     <<"Chicago16", 100, 4, <<"1", "0", "0", EnDash, "1", "0", "4">>>>,
     <<"Chicago16", 600, 613, <<"6", "0", "0", EnDash, "6", "1", "3">>>>,
     <<"Chicago16", 1100, 1123, <<"1", "1", "0", "0", EnDash, "1", "1", "2", "3">>>>,
     <<"Chicago16", 107, 108, <<"1", "0", "7", EnDash, "8">>>>,
     <<"Chicago16", 505, 517, <<"5", "0", "5", EnDash, "1", "7">>>>,
     <<"Chicago16", 1002, 1006, <<"1", "0", "0", "2", EnDash, "6">>>>,
     <<"Chicago16", 321, 325, <<"3", "2", "1", EnDash, "2", "5">>>>,
     <<"Chicago16", 415, 532, <<"4", "1", "5", EnDash, "5", "3", "2">>>>,
     <<"Chicago16", 1087, 1089, <<"1", "0", "8", "7", EnDash, "8", "9">>>>,
     <<"Chicago16", 1496, 1500, <<"1", "4", "9", "6", EnDash, "5", "0", "0">>>>,
     <<"Chicago16", 11564, 11568, <<"1", "1", "5", "6", "4", EnDash, "6", "8">>>>,
     <<"Chicago16", 13792, 13803, <<"1", "3", "7", "9", "2", EnDash, "8", "0", "3">>>>,
     <<"Chicago16", 12991, 13001, <<"1", "2", "9", "9", "1", EnDash, "3", "0", "0", "1">>>>,
     <<"Expanded", 42, 45, <<"4", "2", EnDash, "4", "5">>>>,
     <<"Expanded", 321, 328, <<"3", "2", "1", EnDash, "3", "2", "8">>>>,
     <<"Expanded", 2787, 2816, <<"2", "7", "8", "7", EnDash, "2", "8", "1", "6">>>>,
     <<"Minimal", 42, 45, <<"4", "2", EnDash, "5">>>>,
     <<"Minimal", 321, 328, <<"3", "2", "1", EnDash, "8">>>>,
     <<"Minimal", 2787, 2816, <<"2", "7", "8", "7", EnDash, "8", "1", "6">>>>,
     <<"MinimalTwo", 7, 8, <<"7", EnDash, "8">>>>,
     <<"MinimalTwo", 42, 45, <<"4", "2", EnDash, "4", "5">>>>,
     <<"MinimalTwo", 321, 328, <<"3", "2", "1", EnDash, "2", "8">>>>,
     <<"MinimalTwo", 2787, 2816, <<"2", "7", "8", "7", EnDash, "8", "1", "6">>>>}

\* The pages of the table, as bounds of further ranges.
TablePages == {c[2] : c \in ReferenceTable} \cup {c[3] : c \in ReferenceTable}

\* The pages of the test test_expand.
ExpandPages == {103, 133, 100, 4, 54}

\* The separators handed to format: none, or a hyphen.
Separators == {None, Some(<<"-">>)}

\* The bounds of the modelled ranges.
Pages == ((0 - MaxNegativePage)..MaxPage) \cup TablePages \cup ExpandPages

PageInit ==
    /\ \E self \in PageRangeFormat, start \in Pages, end \in Pages, sep \in Separators :
        page_range =
            Some([format |-> self, start |-> start, end |-> end, separator |-> sep])
    /\ page_buf = None
    /\ OnlyPage

\* format.format(start..end, &mut buf, separator)
Format ==
    /\ IsSome(page_range)
    /\ page_buf = None
    /\ LET r == Unwrap(page_range)
       IN  page_buf' = Some(format(r.format, r.start, r.end, r.separator))
    /\ UNCHANGED page_range
    /\ UNCHANGED notPage

SpecPage == PageInit /\ [][Format]_vars

(***************************************************************************)
(* Claims about page ranges                                                *)
(***************************************************************************)
PageFormat == Unwrap(page_range).format
PageStart == Unwrap(page_range).start
PageEnd == Unwrap(page_range).end
PageSeparator ==
    IF IsSome(Unwrap(page_range).separator)
    THEN Unwrap(Unwrap(page_range).separator) ELSE <<EnDash>>
Written_(n) == [panic |-> FALSE, buf |-> Display(PageStart) \o PageSeparator \o Display(n)]

\* start with its k lowest digits replaced by the k digits of end.
ImpliedEnd ==
    LET k == Len(DigitsOf(PageEnd))
    IN  (PageStart \div pow10(k)) * pow10(k) + PageEnd

\* The full end of a range: the end itself, or the implied one when the end
\* is a positive number smaller than start.
FullEnd == IF 0 < PageEnd /\ PageEnd < PageStart THEN ImpliedEnd ELSE PageEnd

\* C18: format writes start, the separator (the given one or an en-dash) and
\* the full end whenever the style is Expanded or a bound is negative, for
\* every pair of bounds, a negative end smaller than start included.
C18_FullEndWritten ==
    (IsSome(page_buf) /\ (PageFormat = "Expanded" \/ PageStart < 0 \/ PageEnd < 0)) =>
        Unwrap(page_buf) = Written_(FullEnd)

\* C19: for every case of the reference table (format, start, end, no
\* separator) format writes the string listed.
C19_ReferenceTable ==
    IsSome(page_buf) =>
        \A c \in ReferenceTable :
            (/\ PageFormat = c[1]
             /\ PageStart = c[2]
             /\ PageEnd = c[3]
             /\ Unwrap(page_range).separator = None)
                => Unwrap(page_buf) = [panic |-> FALSE, buf |-> c[4]]

\* Chicago-15 wrote 1496..1504 in full.
C19_Witness ==
    /\ page_range = Some([format |-> "Chicago15", start |-> 1496, end |-> 1504,
                          separator |-> None])
    /\ page_buf = Some([panic |-> FALSE,
                        buf |-> <<"1", "4", "9", "6", EnDash, "1", "5", "0", "4">>])

\* C20: when 0 < end < start the end format uses is start with its k lowest
\* digits replaced by the k digits of end (103 and 4 give 104, 133 and 54
\* give 154), and what it writes is what it writes for start and that end
\* under the same style.
C20_AbbreviatedEnd ==
    (IsSome(page_buf) /\ 0 < PageEnd /\ PageEnd < PageStart) =>
        /\ PageFormat = "Expanded" => Unwrap(page_buf) = Written_(ImpliedEnd)
        /\ Unwrap(page_buf) =
             format(PageFormat, PageStart, ImpliedEnd, Unwrap(page_range).separator)
        /\ (PageStart = 103 /\ PageEnd = 4) => ImpliedEnd = 104
        /\ (PageStart = 133 /\ PageEnd = 54) => ImpliedEnd = 154

\* Expanded wrote 133..54 as 133 to 154.
C20_Witness ==
    /\ page_range = Some([format |-> "Expanded", start |-> 133, end |-> 54,
                          separator |-> None])
    /\ page_buf = Some([panic |-> FALSE,
                        buf |-> <<"1", "3", "3", EnDash, "1", "5", "4">>])

(***************************************************************************)
(* Claims about purging                                                    *)
(***************************************************************************)
\* A step that purges the validated style at level Full.
IsFullPurge ==
    /\ IsSome(style)
    /\ Unwrap(style).ok
    /\ style' = Some(Ok(purge(Unwrap(style).val, "Full")))

ParentLinksOf(info) == SelectSeq(info.link, IsParentRel)

\* The metadata after holds the id, the title and the independent-parent
\* links of the metadata before, and nothing else.
OnlyRequiredKept(before, after) ==
    /\ after.id = before.id
    /\ after.title = before.title
    /\ after.link = ParentLinksOf(before)
    /\ after.authors = <<>>
    /\ after.contibutors = <<>>
    /\ after.category = <<>>
    /\ after.field = <<>>
    /\ after.issn = <<>>
    /\ after.eissn = None
    /\ after.issnl = None
    /\ after.published = None
    /\ after.rights = None
    /\ after.summary = None
    /\ after.title_short = None
    /\ after.updated = None

\* C23: after purge(Full) the metadata keeps only the id, the title and the
\* independent-parent links, every other field of it is empty or absent,
\* and nothing outside the metadata has changed.
C23_FullPurgeKeepsRequired ==
    [][IsFullPurge =>
        LET before == Unwrap(style).val
            after == Unwrap(style').val
        IN  /\ OnlyRequiredKept(before.info, after.info)
            /\ after = [before EXCEPT !.info = after.info]]_vars

(***************************************************************************)
(* Claims about the modes of the ordinal lookup                            *)
(***************************************************************************)
IsLegacy == Unwrap(ordinals).legacy_behavior
TermNames == {OrdinalTerms[i].name : i \in DOMAIN OrdinalTerms}
DefinesExactlyClassTerms == TermNames = {OrdinalN(c) : c \in 1..4}
IsNumbered(t) == t.name.key.ordinal = "OrdinalN"
Value(t) == t.name.key.n

\* The match rule a numbered term declares, applied to the number asked for:
\* the last digit by default for a value below 10, the last two digits by
\* default for a value from 10 on, or the whole number.
OwnRule(t) ==
    LET n == AskedNumber IN
    /\ IsNumbered(t)
    /\ n >= 0
    /\ IF Value(t) < 10 THEN
            IF t.match_ \in {None, Some("LastDigit")} THEN n % 10 = Value(t)
            ELSE IF t.match_ = Some("LastTwoDigits") THEN n % 100 = Value(t)
            ELSE n = Value(t)
       ELSE
            IF t.match_ \in {None, Some("LastTwoDigits")} THEN n % 100 = Value(t)
            ELSE IF t.match_ = Some("WholeNumber") THEN n = Value(t)
            ELSE FALSE

\* The numbered terms of the locale that match the number asked for.
Candidates == {i \in DOMAIN OrdinalTerms : OwnRule(OrdinalTerms[i])}

\* C24: the lookup is in legacy mode only when the locale defines exactly
\* the four class terms and no generic term; with the generic term, with a
\* class term missing or with a further numbered term (ordinal-11) it is
\* not, and the numbered term it returns is one that matches by its own rule.
C24_LegacyOnlyWhenExact ==
    IsSome(short_ord) =>
        /\ IsLegacy <=> DefinesExactlyClassTerms
        /\ ~DefinesExactlyClassTerms =>
            /\ (IsSome(ShortTerm) /\ IsNumbered(Unwrap(ShortTerm))) => OwnRule(Unwrap(ShortTerm))
            /\ Candidates # {} => (IsSome(ShortTerm) /\ IsNumbered(Unwrap(ShortTerm)))

GenderMatches(t) == t.gender = AskedGender
Distance(t) == IF AskedNumber >= Value(t) THEN AskedNumber - Value(t) ELSE Value(t) - AskedNumber
InTierOfNumber(t) == (AskedNumber >= 10) <=> (Value(t) >= 10)

\* t is preferred to r: by the tier of its value, then by gender, then by
\* distance to the number.
Preferred(t, r) ==
    \/ InTierOfNumber(t) /\ ~InTierOfNumber(r)
    \/ /\ InTierOfNumber(t) <=> InTierOfNumber(r)
       /\ GenderMatches(t) /\ ~GenderMatches(r)
    \/ /\ InTierOfNumber(t) <=> InTierOfNumber(r)
       /\ GenderMatches(t) <=> GenderMatches(r)
       /\ Distance(t) < Distance(r)

DigitAt(n, i) == (n \div pow10(i)) % 10

\* The highest decimal place at which a and b differ, 0 when they are equal.
HighestDifferingPlace(a, b) ==
    LET top == log10_floor(IF a > b THEN a ELSE b)
        differing == {i \in 0..top : DigitAt(a, i) # DigitAt(b, i)}
    IN  IF differing = {} THEN 0
        ELSE CHOOSE i \in differing : \A j \in differing : j <= i

\* The digits of n from place p down to place 0, zeros included.
DigitsFrom(n, p) == [i \in 1..(p + 1) |-> Display(DigitAt(n, p + 1 - i))[1]]

\* What follows start and the separator in the buffer.
WrittenEndPart ==
    LET buf == Unwrap(page_buf).buf
    IN  SubSeq(buf, Len(Display(PageStart)) + Len(PageSeparator) + 1, Len(buf))

\* C26: under Minimal, for 0 <= start <= end, the end part written is
\* end mod 10^(p+1) with p the highest place at which start and end differ
\* (0 when they are equal): the p+1 digits of end from place p down, which
\* put in place of the p+1 lowest digits of start give end.
C26_MinimalEndPart ==
    (IsSome(page_buf) /\ PageFormat = "Minimal" /\ 0 <= PageStart /\ PageStart <= PageEnd) =>
        LET p == HighestDifferingPlace(PageStart, PageEnd)
            part == PageEnd % pow10(p + 1)
        IN  /\ Unwrap(page_buf) = Written_(part)
            /\ WrittenEndPart = DigitsFrom(PageEnd, p)
            /\ (PageStart \div pow10(p + 1)) * pow10(p + 1) + ValueOf(WrittenEndPart) = PageEnd

\* Minimal wrote 2787..2816 as 2787 and 816.
C26_Witness ==
    /\ page_range = Some([format |-> "Minimal", start |-> 2787, end |-> 2816,
                          separator |-> None])
    /\ page_buf = Some([panic |-> FALSE,
                        buf |-> <<"2", "7", "8", "7", EnDash, "8", "1", "6">>])

\* C27: under MinimalTwo, for 10 <= start <= end, the end part written has
\* at least two digits: the digits of end from place max(1, highest
\* differing place) down to place 0, a zero tens digit included.
C27_MinimalTwoEndPart ==
    (IsSome(page_buf) /\ PageFormat = "MinimalTwo" /\ 10 <= PageStart /\ PageStart <= PageEnd) =>
        LET p == HighestDifferingPlace(PageStart, PageEnd)
        IN  /\ ~Unwrap(page_buf).panic
            /\ Len(WrittenEndPart) >= 2
            /\ WrittenEndPart = DigitsFrom(PageEnd, IF p > 1 THEN p ELSE 1)

\* C29: for every style and 0 < start < end, formatting start with the end
\* part written as the end under Expanded writes the full end.
C29_AbbreviationExpandsBack ==
    (IsSome(page_buf) /\ 0 < PageStart /\ PageStart < PageEnd) =>
        /\ ~Unwrap(page_buf).panic
        /\ format("Expanded", PageStart, ValueOf(WrittenEndPart), Unwrap(page_range).separator)
             = Written_(PageEnd)

\* MinimalTwo wrote 321..328 as 321 and 28, and 321..28 expands to 321..328.
C29_Witness ==
    /\ page_range = Some([format |-> "MinimalTwo", start |-> 321, end |-> 328,
                          separator |-> None])
    /\ IsSome(page_buf)
    /\ WrittenEndPart = <<"2", "8">>
    /\ format("Expanded", 321, 28, None).buf = <<"3", "2", "1", EnDash, "3", "2", "8">>

(***************************************************************************)
(* Claims about the form of a date range string                            *)
(***************************************************************************)
IsDigits(w) == w # <<>> /\ \A i \in DOMAIN w : is_ascii_digit(w[i])

\* YEAR[-MONTH[-DAY]]
HasDateForm(s) ==
    LET parts == Split(s, "-")
    IN  Len(parts) \in 1..3 /\ \A i \in DOMAIN parts : IsDigits(parts[i])

\* YEAR[-MONTH[-DAY]][/YEAR[-MONTH[-DAY]]]
HasRangeForm(s) ==
    LET dates == Split(s, "/")
    IN  Len(dates) \in 1..2 /\ \A i \in DOMAIN dates : HasDateForm(dates[i])

\* C30: a string that is not of the form YEAR[-MONTH[-DAY]][/YEAR[-MONTH[-DAY]]],
\* such as a date followed by further characters, is not parsed into a range.
C30_OnlyRangeFormAccepted ==
    (IsSome(parsed) /\ ~HasRangeForm(Unwrap(date_text))) => ~Unwrap(parsed).ok

(***************************************************************************)
(* Variable search: find_variable_element (lib.rs)                         *)
(***************************************************************************)
\* The most elements of a layout.
MaxElements == 2
\* The most macros of a style.
MaxMacros == 2

\* Variable::Standard(..), Variable::Number(..), Variable::Date(..), Variable::Name(..)
Variable(class, v) == <<class, v>>
Title == Variable("Standard", "title")
Page == Variable("Number", "page")
Issued == Variable("Date", "issued")
Author == Variable("Name", "author")

\* TextTarget
TargetVariable(var) == [t |-> "Variable", var |-> var]
TargetMacro(name_) == [t |-> "Macro", name |-> name_]
TargetTerm == [t |-> "Term"]
TargetValue == [t |-> "Value"]

\* LayoutRenderingElement: the variant and the struct it holds
Text(target) == [kind |-> "Text", text |-> [target |-> target]]
Date(v) == [kind |-> "Date", date |-> [variable |-> v]]
Number(v) == [kind |-> "Number", number |-> [variable |-> v]]
Names(vs) == [kind |-> "Names", names |-> [variable |-> vs]]
Label(v) == [kind |-> "Label", label |-> [variable |-> v]]
Group(children) == [kind |-> "Group", group |-> [children |-> children]]
Choose(if_, else_if, otherwise) ==
    [kind |-> "Choose",
     choose |->
        [if_ |-> [children |-> if_],
         else_if |-> [i \in DOMAIN else_if |-> [children |-> else_if[i]]],
         otherwise |->
            IF IsSome(otherwise) THEN Some([children |-> Unwrap(otherwise)]) ELSE None]]

CslMacro(name_, children) == [name |-> name_, children |-> children]

\* What a search gives: the value it returns, or that it never returns.
Returned(value) == [returns |-> TRUE, value |-> value]
NeverReturns == [returns |-> FALSE, value |-> None]

\* macros.iter().find(|m| m.name == *name)
find_macro(macros, name_) ==
    LET at == {i \in DOMAIN macros : macros[i].name = name_}
    IN  IF at = {} THEN None
        ELSE Some(macros[CHOOSE i \in at : \A j \in at : i <= j])

RECURSIVE LayoutRenderingElement_find_variable_element(_, _, _, _)

\* elements.iter().find_map(|e| e.find_variable_element(variable, macros)),
\* from element i on.  expanding is the number of macros whose children are
\* being searched by the callers.
RECURSIVE find_map(_, _, _, _, _)
find_map(elements, i, variable, macros, expanding) ==
    IF i > Len(elements) THEN Returned(None)
    ELSE LET r == LayoutRenderingElement_find_variable_element(
                      elements[i], variable, macros, expanding)
         IN  IF ~r.returns \/ IsSome(r.value) THEN r
             ELSE find_map(elements, i + 1, variable, macros, expanding)

\* Text::find_variable_element.  The macro arm calls itself through the
\* children of the macro without any record of the macros entered: once
\* more macros are being expanded than the table has entries, one of them
\* was entered from its own children, its search repeats itself for ever
\* and the call never returns (the recursion exhausts the stack).
Text_find_variable_element(self, variable, macros, expanding) ==
    IF self.target.t = "Variable" THEN
        IF self.target.var = variable THEN Returned(Some(Text(self.target)))
        ELSE Returned(None)
    ELSE IF self.target.t = "Macro" THEN
        LET m == find_macro(macros, self.target.name) IN
        IF IsSome(m) THEN
            IF expanding >= Len(macros) THEN NeverReturns
            ELSE find_map(Unwrap(m).children, 1, variable, macros, expanding + 1)
        ELSE Returned(None)
    ELSE Returned(None)

\* Choose::branches
branches(self) == <<self.if_>> \o self.else_if

\* branches.find_map(|b| b.children.iter().find_map(..)), from branch i on
RECURSIVE find_map_branches(_, _, _, _, _)
find_map_branches(bs, i, variable, macros, expanding) ==
    IF i > Len(bs) THEN Returned(None)
    ELSE LET r == find_map(bs[i].children, 1, variable, macros, expanding)
         IN  IF ~r.returns \/ IsSome(r.value) THEN r
             ELSE find_map_branches(bs, i + 1, variable, macros, expanding)

\* Choose::find_variable_element
Choose_find_variable_element(self, variable, macros, expanding) ==
    find_map_branches(branches(self), 1, variable, macros, expanding)

\* LayoutRenderingElement::find_variable_element
LayoutRenderingElement_find_variable_element(self, variable, macros, expanding) ==
    IF self.kind = "Text"
    THEN Text_find_variable_element(self.text, variable, macros, expanding)
    ELSE IF self.kind = "Choose"
         THEN Choose_find_variable_element(self.choose, variable, macros, expanding)
    ELSE IF self.kind = "Date" THEN
        LET d == self.date IN
        IF IsSome(d.variable) /\ Variable("Date", Unwrap(d.variable)) = variable
        THEN Returned(Some(self)) ELSE Returned(None)
    ELSE IF self.kind = "Number" THEN
        LET n == self.number IN
        IF Variable("Number", n.variable) = variable
        THEN Returned(Some(self)) ELSE Returned(None)
    ELSE IF self.kind = "Names" THEN
        LET n == self.names IN
        IF \E i \in DOMAIN n.variable : Variable("Name", n.variable[i]) = variable
        THEN Returned(Some(self)) ELSE Returned(None)
    ELSE IF self.kind = "Group"
         THEN find_map(self.group.children, 1, variable, macros, expanding)
    ELSE Returned(None)

\* Layout::find_variable_element
Layout_find_variable_element(self, variable, macros) ==
    find_map(self.elements, 1, variable, macros, 0)

\* The names of macros: two that a table can define and one it never does.
MacroNames == {"a", "b"}
Undefined == "c"

\* The macros of a table: one that invokes itself, two that invoke each
\* other, ones that render a variable and one that renders none.
MacroDefs ==
    {CslMacro("a", <<Text(TargetMacro("a"))>>),
     CslMacro("a", <<Text(TargetMacro("b"))>>),
     CslMacro("b", <<Text(TargetMacro("a"))>>),
     CslMacro("a", <<Text(TargetVariable(Title))>>),
     CslMacro("a", <<Text(TargetTerm)>>),
     CslMacro("b", <<Text(TargetTerm), Number("page")>>)}

MacroTables == SeqUpTo(MacroDefs, MaxMacros)

\* The elements of a layout.
LayoutElements ==
    {Text(TargetVariable(Title)),
     Text(TargetMacro("a")),
     Text(TargetMacro("b")),
     Text(TargetMacro(Undefined)),
     Text(TargetValue),
     Number("page"),
     Label("page"),
     Date(Some("issued")),
     Names(<<"editor", "author">>),
     Group(<<Text(TargetTerm), Text(TargetVariable(Title))>>),
     Choose(<<Text(TargetVariable(Title))>>, <<>>, None),
     Choose(<<Text(TargetTerm)>>, <<<<Number("page")>>>>, None),
     Choose(<<Text(TargetTerm)>>, <<>>, Some(<<Text(TargetVariable(Title))>>)),
     Choose(<<Text(TargetMacro("a"))>>, <<<<Label("page")>>>>, Some(<<Number("page")>>))}

Layouts == {[elements |-> es] : es \in SeqUpTo(LayoutElements, MaxElements)}

Variables == {Title, Page, Author}

FindInit ==
    /\ find_layout \in {Some(l) : l \in Layouts}
    /\ find_macros \in {Some(t) : t \in MacroTables}
    /\ find_variable \in {Some(v) : v \in Variables}
    /\ find_element = None
    /\ OnlyFind

\* layout.find_variable_element(variable, &macros)
FindVariableElement ==
    /\ IsSome(find_layout)
    /\ find_element = None
    /\ find_element' = Some(Layout_find_variable_element(
                                Unwrap(find_layout), Unwrap(find_variable), Unwrap(find_macros)))
    /\ UNCHANGED <<find_layout, find_macros, find_variable>>
    /\ UNCHANGED notFind

SpecFind == FindInit /\ [][FindVariableElement]_vars

(***************************************************************************)
(* Claims about the variable search                                        *)
(***************************************************************************)
SearchedElements == Unwrap(find_layout).elements
SearchedMacros == Unwrap(find_macros)
SearchedVariable == Unwrap(find_variable)
SearchResult == Unwrap(find_element)

\* C21: the search of a layout returns for every layout and macro table,
\* also when a macro invokes itself or macros invoke each other in a cycle.
C21_SearchReturns ==
    IsSome(find_element) => SearchResult.returns

\* The layout is one text element that invokes a macro the table lacks.
InvokesUndefinedMacro ==
    /\ Len(SearchedElements) = 1
    /\ SearchedElements[1].kind = "Text"
    /\ SearchedElements[1].text.target.t = "Macro"
    /\ \A i \in DOMAIN SearchedMacros :
            SearchedMacros[i].name # SearchedElements[1].text.target.name

\* C22: the search of a text element that invokes a macro absent from the
\* table neither fails to return nor gives the empty result of a search
\* that found no element rendering the variable.
C22_UndefinedMacroIsFailure ==
    (IsSome(find_element) /\ InvokesUndefinedMacro) =>
        SearchResult \notin {NeverReturns, Returned(None)}

\* The element renders the variable itself.
Renders(e, v) ==
    \/ e.kind = "Text" /\ e.text.target = TargetVariable(v)
    \/ e.kind = "Number" /\ v = <<"Number", e.number.variable>>
    \/ e.kind = "Date" /\ e.date.variable # None /\ v = <<"Date", e.date.variable[1]>>
    \/ e.kind = "Names" /\ \E i \in DOMAIN e.names.variable : v = <<"Name", e.names.variable[i]>>

\* The elements reachable from a list of elements: the elements themselves,
\* the children of groups, of every branch of a choose (if, else-if and
\* else) and of the macros that text elements invoke.  entered holds the
\* names of the macros already entered.
RECURSIVE Reachable(_, _, _)
Reachable(elements, macros, entered) ==
    UNION {
        LET e == elements[i] IN
        {e} \cup
        (IF e.kind = "Group" THEN Reachable(e.group.children, macros, entered)
         ELSE IF e.kind = "Choose" THEN
            Reachable(e.choose.if_.children, macros, entered)
            \cup UNION {Reachable(e.choose.else_if[j].children, macros, entered) :
                            j \in DOMAIN e.choose.else_if}
            \cup (IF IsSome(e.choose.otherwise)
                  THEN Reachable(Unwrap(e.choose.otherwise).children, macros, entered)
                  ELSE {})
         ELSE IF e.kind = "Text" /\ e.text.target.t = "Macro" THEN
            LET called == e.text.target.name
                defs == {k \in DOMAIN macros : macros[k].name = called}
            IN  IF defs # {} /\ called \notin entered
                THEN Reachable(macros[CHOOSE k \in defs : \A j \in defs : k <= j].children,
                               macros, entered \cup {called})
                ELSE {}
         ELSE {})
        : i \in DOMAIN elements}

RenderingElements ==
    {e \in Reachable(SearchedElements, SearchedMacros, {}) : Renders(e, SearchedVariable)}

\* C28: a search that returns gives an element exactly when some element
\* reachable in the layout renders the variable -- in a group, in any branch
\* of a choose (if, else-if or else) or in a macro a text element invokes --
\* and the element given is one of those.
C28_FindsReachable ==
    (IsSome(find_element) /\ SearchResult.returns) =>
        /\ IsSome(SearchResult.value) <=> RenderingElements # {}
        /\ IsSome(SearchResult.value) => Unwrap(SearchResult.value) \in RenderingElements

====
